---- MODULE Spec2Model ----
(***************************************************************************)
(* Model of the invoice-processing agent: the Agent.process control loop   *)
(* (src/invoice_agent/framework.py), the ActionContext it shares with the  *)
(* tools, and the tools it dispatches; the REST routes of                   *)
(* src/invoice_agent/api.py over the shared ActionContext (ApiSpec); an    *)
(* ActionContext used on its own (CtxSpec); the tool registry (RegSpec)    *)
(* and the schema formatter (FormatSpec).  Each part has its own           *)
(* next-state relation, which leaves the variables of the others alone.    *)
(*                                                                         *)
(* Python values are modelled as follows.  None is the reserved string     *)
(* None; a dict is a function on its keys (a missing key is a key outside  *)
(* the DOMAIN); a list is a sequence.  What a call of a tool yields carries *)
(* its Python type as the name of its one field ([dict |-> d], [int |-> n], *)
(* [list |-> l], [none |-> TRUE]) because the loop branches on isinstance; *)
(* a raised exception is [exc |-> msg], msg being str(e).                  *)
(*                                                                         *)
(* A model reply is what the loop reads of it: the list                    *)
(* response.candidates[0].content.parts, each part either a text part      *)
(* [text |-> s] or a function-call part [function_call |-> [name, args]]   *)
(* with args a mapping.                                                    *)
(***************************************************************************)
EXTENDS Integers, Sequences, FiniteSets, TLC

VARIABLES
    pc,                 \* position of Agent.process: idle, awaiting, dispatching, done, raised
    messages,           \* Agent._messages, the conversation history
    context,            \* PythonEnvironment._context._data of the Agent
    iteration,          \* completed passes of "for _ in range(max_iterations)"
    function_calls,     \* the function calls of the current reply not yet dispatched
    function_responses, \* the result entries collected for the current reply
    result,             \* how process ended: [kind |-> "return" | "raise", value |-> ...]
    nModelCalls,        \* calls of _generate_response made by this invocation
    dispatched,         \* the function calls dispatched by this invocation, in order,
                        \* each with whether a tool was called for it and what the call did
    context0,           \* the context as it was when process was entered
    varied,             \* replies drawn from VariedReplies so far
    api_data,           \* api._context._data, the backing dict of the shared context
    api_before,         \* api_data as it was before the latest operation on it
    api_prev,           \* the operation on the shared context before the latest one
    api_last,           \* the latest operation on the shared context and its response
    ctx_data,           \* ActionContext._data of a context used on its own
    ctx_before,         \* ctx_data as it was before the latest operation on it
    ctx_written,        \* per key, the value the context was constructed with or
                        \* the value of the latest set of the key
    ctx_last,           \* the latest operation on that context and what it returned
    registered_tools,   \* framework._registered_tools, the global registry
    registry_tools,     \* PythonActionRegistry._tools of one registry object
    held,               \* the dict the caller got from the latest list call, and
                        \* whether it is the very dict registry_tools is bound to
    reg_log,            \* per name, the entry of its latest registration since
                        \* the registry was last cleared
    reg_last,           \* the latest operation on the registry and what it returned
    fmt_prev,           \* the call of format_tools before the latest one
    fmt_last,           \* the latest call of format_tools: the dict it was given
                        \* and the list it returned
    invocations,        \* calls of process made on the Agent so far
    agents,             \* Agents constructed so far
    api_agent,          \* the Agent of the latest /agent/process request and
                        \* the tool calls it made
    c_ref,              \* concurrent REST layer: the dict object the shared context
                        \* holds under "invoice_storage" (0: the key is absent)
    c_heap,             \* the content of each dict object
    c_thread,           \* each request thread: where its handler stands, the
                        \* dict its local variable storage is bound to, and the
                        \* status of its latest response
    c_acked,            \* the identifiers stored with a 200 response and not
                        \* removed by a delete since
    history0            \* the Agent's history as it was when process was last entered

\* the variables of Agent.process, and those of the REST layer
agentVars == <<pc, messages, context, iteration, function_calls,
               function_responses, result, nModelCalls, dispatched, context0,
               varied>>
apiVars == <<api_data, api_before, api_prev, api_last>>
ctxVars == <<ctx_data, ctx_before, ctx_written, ctx_last>>
regVars == <<registered_tools, registry_tools, held, reg_log, reg_last>>

fmtVars == <<fmt_prev, fmt_last>>
reuseVars == <<invocations, agents, history0>>
concVars == <<c_ref, c_heap, c_thread, c_acked>>
runVars == <<api_agent>>

vars == <<agentVars, apiVars, ctxVars, regVars, fmtVars, reuseVars, concVars, runVars>>

\* what an operation of one part leaves alone: the variables of the others
notAgent == <<runVars, concVars, apiVars, ctxVars, regVars, fmtVars, reuseVars>>
notApi == <<runVars, concVars, agentVars, ctxVars, regVars, fmtVars, reuseVars>>
notCtx == <<runVars, concVars, agentVars, apiVars, regVars, fmtVars, reuseVars>>
notReg == <<runVars, concVars, agentVars, apiVars, ctxVars, fmtVars, reuseVars>>
notFmt == <<agentVars, apiVars, ctxVars, reuseVars, concVars, runVars>>
notReuse == <<apiVars, ctxVars, regVars, fmtVars, concVars, runVars>>
notConc == <<agentVars, apiVars, ctxVars, regVars, fmtVars, reuseVars, runVars>>
notRest == <<agentVars, ctxVars, regVars, fmtVars, reuseVars, concVars>>

-----------------------------------------------------------------------------
(* Bounds of the model *)

\* how many replies of one run may come from VariedReplies; the others are
\* PlainToolReply or FinalText
MaxVaried == 1

-----------------------------------------------------------------------------
(* Python values *)

None == "<None>"

EmptyMap == [k \in {} |-> k]

PyDict(d) == [dict |-> d]
PyInt(n)  == [int |-> n]
PyList(l) == [list |-> l]
PyNone    == [none |-> TRUE]
PyExc(msg) == [exc |-> msg]

\* isinstance(val, dict), isinstance(val, list)
IsDict(val) == "dict" \in DOMAIN val
IsList(val) == "list" \in DOMAIN val

\* d.get(k)
DictGet(d, k) == IF k \in DOMAIN d THEN d[k] ELSE None

\* d[k] = v
DictSet(d, k, v) == [x \in DOMAIN d \cup {k} |-> IF x = k THEN v ELSE d[x]]

\* "not v" for a string or None
Falsy(v) == v = None \/ v = ""

Digit(n) == <<"0", "1", "2", "3", "4", "5", "6", "7", "8", "9">>[n + 1]

RECURSIVE NatStr(_)
NatStr(n) == IF n < 10 THEN Digit(n) ELSE NatStr(n \div 10) \o Digit(n % 10)

\* str(n) for an int
IntStr(n) == IF n < 0 THEN "-" \o NatStr(-n) ELSE NatStr(n)

RECURSIVE JoinWith(_, _)
\* sep.join(seq) for a list of strings
JoinWith(sep, seq) ==
    IF seq = <<>> THEN ""
    ELSE IF Len(seq) = 1 THEN seq[1]
    ELSE seq[1] \o sep \o JoinWith(sep, Tail(seq))

RECURSIVE MapIntStr(_)
MapIntStr(l) == IF l = <<>> THEN <<>> ELSE <<IntStr(Head(l))>> \o MapIntStr(Tail(l))

\* json.dumps(l) for a list of ints
JsonDumps(l) == "[" \o JoinWith(", ", MapIntStr(l)) \o "]"

\* str(val) for a value that is not a dict or a list
PyStr(val) == IF "int" \in DOMAIN val THEN IntStr(val.int) ELSE "None"

-----------------------------------------------------------------------------
(* ActionContext *)

\* a get that falls back on the default whenever the stored value is None
CtxGet_DefaultOnNone(data, key, default) ==
    IF key \in DOMAIN data /\ data[key] # None THEN data[key] ELSE default

\* ActionContext.get(key, default) on the backing dict data
CtxGet(data, key, default) == IF key \in DOMAIN data THEN data[key] ELSE default

\* ActionContext.set(key, value): the backing dict afterwards
CtxSet(data, key, value) == DictSet(data, key, value)

\* key in action_context
CtxContains(data, key) == key \in DOMAIN data

-----------------------------------------------------------------------------
(* The tools: the global registry as loaded by the Agent's action registry, *)
(* the signatures inspect.signature reads, and the tool bodies.             *)

\* names in _registered_tools once invoice_agent.tools and the add tool are registered
RegisteredTools == {"extract_invoice_data", "store_invoice", "add"}

\* inspect.signature(func).parameters, as a set of names; none has a default
Parameters(name) ==
    IF name = "extract_invoice_data" THEN {"action_context", "document_text"}
    ELSE IF name = "store_invoice" THEN {"action_context", "invoice_data"}
    ELSE {"a", "b"}

\* the value the loop injects for action_context: the Agent's own context object
CtxRef == "<environment.context>"

\* what a call of a tool does: it returns a value or raises, and leaves the
\* context's backing dict as data
Returned(val, data) == [raised |-> FALSE, value |-> val, data |-> data]
Raised(msg, data)   == [raised |-> TRUE, value |-> PyExc(msg), data |-> data]

\* a store_invoice that rejects only a missing or null invoice number
store_invoice_NoneOnly(data, invoice_data) ==
    LET invoice_number == DictGet(invoice_data, "invoice_number")
        storage == CtxGet(data, "invoice_storage", EmptyMap)
    IN  IF invoice_number = None
        THEN Raised("Invoice data must contain an invoice number", data)
        ELSE Returned(
                PyDict([status |-> "success",
                        message |-> "Stored invoice " \o invoice_number,
                        invoice_number |-> invoice_number]),
                CtxSet(data, "invoice_storage",
                       DictSet(storage, invoice_number, invoice_data)))

\* a store_invoice that keeps the record already stored under the number
store_invoice_KeepFirst(data, invoice_data) ==
    LET invoice_number == DictGet(invoice_data, "invoice_number")
        storage == CtxGet(data, "invoice_storage", EmptyMap)
    IN  IF Falsy(invoice_number)
        THEN Raised("Invoice data must contain an invoice number", data)
        ELSE Returned(
                PyDict([status |-> "success",
                        message |-> "Stored invoice " \o invoice_number,
                        invoice_number |-> invoice_number]),
                CtxSet(data, "invoice_storage",
                       IF invoice_number \in DOMAIN storage THEN storage
                       ELSE DictSet(storage, invoice_number, invoice_data)))

\* a store_invoice that keeps one record, the latest, under one key
store_invoice_OneSlot(data, invoice_data) ==
    LET invoice_number == DictGet(invoice_data, "invoice_number")
    IN  IF Falsy(invoice_number)
        THEN Raised("Invoice data must contain an invoice number", data)
        ELSE Returned(
                PyDict([status |-> "success",
                        message |-> "Stored invoice " \o invoice_number,
                        invoice_number |-> invoice_number]),
                CtxSet(data, "invoice_storage",
                       DictSet(EmptyMap, "latest", invoice_data)))

\* store_invoice(action_context, invoice_data): reject a record without a
\* non-empty invoice number before touching storage, else store it under
\* its invoice number
store_invoice(data, invoice_data) ==
    LET invoice_number == DictGet(invoice_data, "invoice_number")
        storage == CtxGet(data, "invoice_storage", EmptyMap)
    IN  IF Falsy(invoice_number)
        THEN Raised("Invoice data must contain an invoice number", data)
        ELSE Returned(
                PyDict([status |-> "success",
                        message |-> "Stored invoice " \o invoice_number,
                        invoice_number |-> invoice_number]),
                CtxSet(data, "invoice_storage",
                       DictSet(storage, invoice_number, invoice_data)))

\* the records of the model
Rec1       == [invoice_number |-> "INV-1", total_amount |-> 100]
Rec1b      == [invoice_number |-> "INV-1", total_amount |-> 150]
Rec2       == [invoice_number |-> "INV-2", total_amount |-> 200]
RecNoId    == [total_amount |-> 100]
RecEmptyId == [invoice_number |-> "", total_amount |-> 100]
RecNoneId  == [invoice_number |-> None, total_amount |-> 100]

\* prompt_llm_for_json: the extraction call returns the structured payload
\* of the reply, or raises when the reply carries none
LlmOutcomes ==
    << [raised |-> FALSE, value |-> Rec2, error |-> ""],
       [raised |-> TRUE, value |-> EmptyMap,
        error |-> "LLM did not return structured data"] >>

\* extract_invoice_data(action_context, document_text): returns what
\* prompt_llm_for_json returns, and raises what it raises
extract_invoice_data(data, document_text, llm) ==
    IF llm.raised THEN Raised(llm.error, data)
    ELSE Returned(PyDict(llm.value), data)

\* add(a, b) of the tests
add(data, a, b) == Returned(PyInt(a + b), data)

\* func(**kwargs): Python binds the keyword arguments to the parameters
\* (TypeError on an unexpected keyword, else on a missing argument) and
\* runs the body
CallTool(name, kwargs, data, llm) ==
    IF DOMAIN kwargs \ Parameters(name) # {}
    THEN Raised(name \o "() got an unexpected keyword argument", data)
    ELSE IF Parameters(name) \ DOMAIN kwargs # {}
    THEN Raised(name \o "() missing required positional arguments", data)
    ELSE IF "action_context" \in DOMAIN kwargs /\ kwargs.action_context # CtxRef
    THEN Raised("'str' object has no attribute 'get'", data)
    ELSE IF name = "store_invoice" THEN store_invoice(data, kwargs.invoice_data)
    ELSE IF name = "extract_invoice_data"
    THEN extract_invoice_data(data, kwargs.document_text, llm)
    ELSE add(data, kwargs.a, kwargs.b)

-----------------------------------------------------------------------------
(* Conversation turns and model replies *)

TextPart(s) == [text |-> s]
CallPart(name, args) == [function_call |-> [name |-> name, args |-> args]]
ResponsePart(name, response) ==
    [function_response |-> [name |-> name, response |-> response]]

\* "if p.function_call" and "if p.text"
HasCall(p) == "function_call" \in DOMAIN p
HasText(p) == "text" \in DOMAIN p /\ ~Falsy(p.text)

Content(role, parts) == [role |-> role, parts |-> parts]

AddArgs == [a |-> 2, b |-> 3]

\* the two replies a run may use any number of times
PlainToolReply == << CallPart("add", AddArgs) >>
FinalText == << TextPart("5") >>

\* the other replies of the model
VariedReplies ==
    << << >>,
       << TextPart("a"), TextPart("b") >>,
       << TextPart(""), TextPart("a") >>,
       << TextPart("t"), CallPart("add", AddArgs) >>,
       << CallPart("nope", EmptyMap) >>,
       << CallPart("nope", EmptyMap),
          CallPart("store_invoice", [invoice_data |-> Rec1]) >>,
       << CallPart("store_invoice", [invoice_data |-> Rec1]),
          CallPart("store_invoice", [invoice_data |-> Rec1b]) >>,
       << CallPart("store_invoice", [invoice_data |-> Rec1]),
          CallPart("store_invoice", [invoice_data |-> RecNoId]),
          CallPart("add", AddArgs) >>,
       << CallPart("store_invoice", [invoice_data |-> Rec2]),
          CallPart("store_invoice", [invoice_data |-> RecEmptyId]),
          CallPart("nope", EmptyMap) >>,
       << CallPart("store_invoice", [invoice_data |-> Rec1]),
          CallPart("store_invoice", [invoice_data |-> RecNoId]),
          CallPart("store_invoice", [invoice_data |-> RecEmptyId]),
          CallPart("store_invoice", [invoice_data |-> RecNoneId]) >>,
       << CallPart("store_invoice", [invoice_data |-> RecNoneId]),
          CallPart("store_invoice", [invoice_data |-> Rec1]) >>,
       << CallPart("add", [a |-> 2]),
          CallPart("store_invoice", [invoice_data |-> Rec2]) >>,
       << CallPart("store_invoice",
                   [action_context |-> "bogus", invoice_data |-> Rec1]) >>,
       << CallPart("add", [action_context |-> "bogus", a |-> 2, b |-> 3]) >>,
       << CallPart("extract_invoice_data", [document_text |-> "doc"]),
          CallPart("add", AddArgs) >> >>

UserInputs == {"Please process the following invoice and store it"}

\* what a failing _generate_response raises
ModelFailures == {"LLM down"}

-----------------------------------------------------------------------------
(* Agent.process *)

max_iterations == 10

Sentinel == "Maximum iterations reached without a final response."

\* a loop that makes one pass too many
LoopContinues_OffByOne(n) == n <= max_iterations

\* for _ in range(max_iterations): another pass follows after n passes
LoopContinues(n) == n < max_iterations

\* function_calls = [p for p in response_content.parts if p.function_call]
FunctionCalls(parts) == SelectSeq(parts, HasCall)

RECURSIVE TextsOf(_)
\* text_parts = [p.text for p in response_content.parts if p.text]
TextsOf(parts) ==
    IF parts = <<>> THEN <<>>
    ELSE (IF HasText(Head(parts)) THEN <<Head(parts).text>> ELSE <<>>)
         \o TextsOf(Tail(parts))

\* the text segments run together without the newline
JoinText_NoNewline(parts) == JoinWith("", TextsOf(parts))

\* "\n".join(text_parts)
JoinText(parts) == JoinWith("\n", TextsOf(parts))

\* a dispatch that injects the context only when the model gave no value
\* under the name
BuildKwargs_ModelFirst(name, args) ==
    IF "action_context" \in Parameters(name) /\ "action_context" \notin DOMAIN args
    THEN DictSet(args, "action_context", CtxRef)
    ELSE args

\* kwargs = dict(fc.args), with the context injected when the tool declares it
BuildKwargs(name, args) ==
    IF "action_context" \in Parameters(name)
    THEN DictSet(args, "action_context", CtxRef)
    ELSE args

\* result if isinstance(result, dict)
\* else {"result": json.dumps(result) if isinstance(result, list) else str(result)}
ResultData(val) ==
    IF IsDict(val) THEN val.dict
    ELSE [result |-> IF IsList(val) THEN JsonDumps(val.list) ELSE PyStr(val)]

\* an error payload that drops the failure's message
ErrorData_NoMessage(e) == [error |-> "Tool execution failed"]

\* the except branch: {"error": str(e)}
ErrorData(e) == [error |-> e.exc]

\* an error payload that does not say which tool was unknown
UnknownToolData_NoName(name) == [error |-> "Unknown tool"]

\* the else branch: {"error": f"Unknown tool {fc.name}"}
UnknownToolData(name) == [error |-> "Unknown tool " \o name]

\* the result entry of a called tool
OutcomeData(out) == IF out.raised THEN ErrorData(out.value) ELSE ResultData(out.value)

\* tool_info = tools.get(fc.name); if tool_info:
Known(name) == name \in RegisteredTools

\* what is noted of one operation on the shared context of the REST layer:
\* the operation, the identifier and the record it was given, and its
\* response: the HTTP status of a route (0 for a direct call of a tool, for
\* which raised tells whether the call raised and detail holds the message
\* of what it raised or returned), and in body the records of the response
Operation(op, key, rec, raised, status, detail, body) ==
    [op |-> op, key |-> key, rec |-> rec, raised |-> raised, status |-> status,
     detail |-> detail, body |-> body]

NoOperation == Operation("none", "", EmptyMap, FALSE, 0, "", {})

\* what is noted of one operation on a context used on its own: the
\* method, its key, the value it was given (the default of a get, the value
\* of a set), the value a get returned and what a containment check said
ContextOp(op, key, value, returned, found) ==
    [op |-> op, key |-> key, value |-> value, result |-> returned, found |-> found]

NoContextOp == ContextOp("none", "", "", "", FALSE)

\* the dict a caller holds: the list call it came from, whether it is the
\* dict object the registry object's _tools is bound to, and its entries
Held(source, live, tools) == [source |-> source, live |-> live, tools |-> tools]

\* what is noted of one operation on the registry: the function called, the
\* name it was given, whether it raised, and the entry a get returned, as a
\* sequence that is empty for None
RegistryOp(op, name, raised, entry) ==
    [op |-> op, name |-> name, raised |-> raised, entry |-> entry]

NoRegistryOp == RegistryOp("none", "", FALSE, <<>>)

\* what is noted of a call of format_tools: the dict it was given and the
\* list it returned
\* how many request threads run handlers at the same time
NumThreads == 2

Threads == 1..NumThreads

\* the dict objects there can be: one per thread that saw no storage, and
\* the one a store created
Objects == 1..(NumThreads + 1)

\* a request thread: the handler it runs and where it stands in it, the
\* identifier of the request, the dict object its local storage is bound to
\* (0: unbound), the size a started iteration saw, and the status of the
\* latest response of the thread (0: none yet)
Thread(pc_, op, key, storage, seen, status) ==
    [pc |-> pc_, op |-> op, key |-> key, storage |-> storage, seen |-> seen,
     status |-> status]

FormatCalled(called, tools, formatted) ==
    [called |-> called, tools |-> tools, formatted |-> formatted]

NoFormatCall == FormatCalled(FALSE, <<>>, <<>>)

Init ==
    /\ pc = "idle"
    /\ messages = <<>>
    /\ context = EmptyMap
    /\ iteration = 0
    /\ function_calls = <<>>
    /\ function_responses = <<>>
    /\ result = [kind |-> "none", value |-> ""]
    /\ nModelCalls = 0
    /\ dispatched = <<>>
    /\ context0 = EmptyMap
    /\ varied = 0
    /\ api_data = EmptyMap
    /\ api_before = EmptyMap
    /\ api_prev = NoOperation
    /\ api_last = NoOperation
    /\ ctx_data = EmptyMap
    /\ ctx_before = EmptyMap
    /\ ctx_written = EmptyMap
    /\ ctx_last = NoContextOp
    /\ registered_tools = <<>>
    /\ registry_tools = <<>>
    /\ held = Held("none", FALSE, <<>>)
    /\ reg_log = EmptyMap
    /\ reg_last = NoRegistryOp
    /\ fmt_prev = NoFormatCall
    /\ fmt_last = NoFormatCall
    /\ invocations = 0
    /\ agents = 1
    /\ api_agent = [ran |-> FALSE,
                    created |-> [messages |-> <<>>, context |-> EmptyMap],
                    agent |-> [messages |-> <<>>, context |-> EmptyMap],
                    log |-> <<>>]
    /\ c_ref = 0
    /\ c_heap = [o \in Objects |-> EmptyMap]
    /\ c_thread = [t \in Threads |-> Thread("idle", "none", "", 0, 0, 0)]
    /\ c_acked = {}
    /\ history0 = <<>>

\* an entry of process that also notes the input in the context
Start_NotesInput(user_input) ==
    /\ pc = "idle"
    /\ messages' = Append(messages, Content("user", <<TextPart(user_input)>>))
    /\ pc' = "awaiting"
    /\ context0' = context
    /\ context' = CtxSet(context, "last_input", user_input)
    /\ UNCHANGED <<iteration, function_calls, function_responses,
                   result, nModelCalls, dispatched, varied>>

\* process is entered: the user turn is appended and the loop starts
Start(user_input) ==
    /\ pc = "idle"
    /\ messages' = Append(messages, Content("user", <<TextPart(user_input)>>))
    /\ pc' = "awaiting"
    /\ context0' = context
    /\ UNCHANGED <<context, iteration, function_calls, function_responses,
                   result, nModelCalls, dispatched, varied>>

\* a loop that takes a reply for final as soon as it holds text
HandleReply_TextFirst(parts) ==
    /\ nModelCalls' = nModelCalls + 1
    /\ messages' = Append(messages, Content("model", parts))
    /\ IF TextsOf(parts) # <<>> \/ FunctionCalls(parts) = <<>>
       THEN /\ pc' = "done"
            /\ result' = [kind |-> "return", value |-> JoinText(parts)]
            /\ UNCHANGED function_calls
       ELSE /\ pc' = "dispatching"
            /\ function_calls' = FunctionCalls(parts)
            /\ UNCHANGED result
    /\ UNCHANGED <<context, iteration, function_responses, dispatched, context0>>

\* a loop that returns the sentinel on a tenth reply that requests tools,
\* without dispatching them
HandleReply_CapBeforeDispatch(parts) ==
    /\ nModelCalls' = nModelCalls + 1
    /\ messages' = Append(messages, Content("model", parts))
    /\ IF FunctionCalls(parts) = <<>>
       THEN /\ pc' = "done"
            /\ result' = [kind |-> "return", value |-> JoinText(parts)]
            /\ UNCHANGED function_calls
       ELSE IF nModelCalls + 1 = max_iterations
            THEN /\ pc' = "done"
                 /\ result' = [kind |-> "return", value |-> Sentinel]
                 /\ UNCHANGED function_calls
            ELSE /\ pc' = "dispatching"
                 /\ function_calls' = FunctionCalls(parts)
                 /\ UNCHANGED result
    /\ UNCHANGED <<context, iteration, function_responses, dispatched, context0>>

\* _generate_response returns a reply: it is appended, and the loop returns
\* its text or goes on to dispatch its function calls
HandleReply(parts) ==
    /\ nModelCalls' = nModelCalls + 1
    /\ messages' = Append(messages, Content("model", parts))
    /\ IF FunctionCalls(parts) = <<>>
       THEN /\ pc' = "done"
            /\ result' = [kind |-> "return", value |-> JoinText(parts)]
            /\ UNCHANGED function_calls
       ELSE /\ pc' = "dispatching"
            /\ function_calls' = FunctionCalls(parts)
            /\ UNCHANGED result
    /\ UNCHANGED <<context, iteration, function_responses, dispatched, context0>>

ModelReplyPlain ==
    /\ pc = "awaiting"
    /\ \E parts \in {PlainToolReply, FinalText} : HandleReply(parts)
    /\ UNCHANGED varied

ModelReplyVaried ==
    /\ pc = "awaiting"
    /\ varied < MaxVaried
    /\ \E i \in 1..Len(VariedReplies) : HandleReply(VariedReplies[i])
    /\ varied' = varied + 1

\* a loop that catches the failure of the model call and returns its message
ModelFail_Caught(msg) ==
    /\ pc = "awaiting"
    /\ nModelCalls' = nModelCalls + 1
    /\ pc' = "done"
    /\ result' = [kind |-> "return", value |-> msg]
    /\ UNCHANGED <<messages, context, iteration, function_calls,
                   function_responses, dispatched, context0, varied>>

\* _generate_response raises: nothing catches it in process
ModelFail(msg) ==
    /\ pc = "awaiting"
    /\ nModelCalls' = nModelCalls + 1
    /\ pc' = "raised"
    /\ result' = [kind |-> "raise", value |-> msg]
    /\ UNCHANGED <<messages, context, iteration, function_calls,
                   function_responses, dispatched, context0, varied>>

\* the entry put in front of the ones collected so far
AppendResponse_InFront(responses, part) == <<part>> \o responses

\* function_responses.append(part)
AppendResponse(responses, part) == Append(responses, part)

\* the body of "for fc_part in function_calls" for one function call fc, with
\* the context's backing dict data: the dict afterwards, the result entry,
\* and what was done for the call
DispatchCall(fc, data, llm) ==
    IF Known(fc.name)
    THEN LET kwargs == BuildKwargs(fc.name, fc.args)
             out == CallTool(fc.name, kwargs, data, llm)
         IN  [data |-> out.data,
              part |-> ResponsePart(fc.name, OutcomeData(out)),
              log |-> [name |-> fc.name, called |-> TRUE, kwargs |-> kwargs,
                       raised |-> out.raised, value |-> out.value]]
    ELSE [data |-> data,
          part |-> ResponsePart(fc.name, UnknownToolData(fc.name)),
          log |-> [name |-> fc.name, called |-> FALSE, kwargs |-> EmptyMap,
                   raised |-> FALSE, value |-> PyNone]]

\* one pass of "for fc_part in function_calls"
DispatchOne ==
    /\ pc = "dispatching"
    /\ function_calls # <<>>
    /\ \E i \in 1..Len(LlmOutcomes) :
         LET d == DispatchCall(Head(function_calls).function_call, context,
                               LlmOutcomes[i])
         IN  /\ context' = d.data
             /\ function_responses' = AppendResponse(function_responses, d.part)
             /\ dispatched' = Append(dispatched, d.log)
    /\ function_calls' = Tail(function_calls)
    /\ UNCHANGED <<pc, messages, iteration, result, nModelCalls, context0, varied>>

\* a history that is not given the result turn
WithResultTurn_Dropped(msgs, responses) == msgs

\* self._messages.append(types.Content(role="user", parts=function_responses))
WithResultTurn(msgs, responses) == Append(msgs, Content("user", responses))

\* after the last function call: the result turn is appended and the loop
\* goes round, or falls out of the for statement and returns the sentinel
EndRound ==
    /\ pc = "dispatching"
    /\ function_calls = <<>>
    /\ messages' = WithResultTurn(messages, function_responses)
    /\ function_responses' = <<>>
    /\ iteration' = iteration + 1
    /\ IF LoopContinues(iteration + 1)
       THEN /\ pc' = "awaiting"
            /\ UNCHANGED result
       ELSE /\ pc' = "done"
            /\ result' = [kind |-> "return", value |-> Sentinel]
    /\ UNCHANGED <<context, function_calls, nModelCalls, dispatched, context0, varied>>

\* Agent.process runs on its own Agent: nothing else moves
Next ==
    \/ (\E u \in UserInputs : Start(u)) /\ UNCHANGED notAgent
    \/ ModelReplyPlain /\ UNCHANGED notAgent
    \/ ModelReplyVaried /\ UNCHANGED notAgent
    \/ (\E m \in ModelFailures : ModelFail(m)) /\ UNCHANGED notAgent
    \/ DispatchOne /\ UNCHANGED notAgent
    \/ EndRound /\ UNCHANGED notAgent

Spec == Init /\ [][Next]_vars

\* process is called, and every call it makes (the model, a tool) comes
\* back: the loop is sequential code that runs on whenever it can
FairSpec == Spec /\ WF_vars(Next)

-----------------------------------------------------------------------------
(* An Agent that is used again: process is called on it once more after an *)
(* invocation has ended, or a new Agent is created.  The replies are the   *)
(* plain ones.                                                             *)

\* how many times process is called on one Agent
MaxInvocations == 2

\* how many Agents are constructed
MaxAgents == 2

\* an entry of process that starts from an empty history
Entered_Fresh(msgs, user_input) == <<Content("user", <<TextPart(user_input)>>)>>

\* self._messages.append(types.Content(role="user", parts=[...])) on the
\* history the Agent has
Entered(msgs, user_input) == Append(msgs, Content("user", <<TextPart(user_input)>>))

\* agent.process(user_input) on an Agent on which no invocation is running:
\* the locals of process start anew, the history and the context are the
\* Agent's
Process(user_input) ==
    /\ pc \in {"idle", "done", "raised"}
    /\ invocations < MaxInvocations
    /\ messages' = Entered(messages, user_input)
    /\ history0' = messages
    /\ invocations' = invocations + 1
    /\ pc' = "awaiting"
    /\ UNCHANGED agents
    /\ context0' = context
    /\ iteration' = 0
    /\ function_calls' = <<>>
    /\ function_responses' = <<>>
    /\ result' = [kind |-> "none", value |-> ""]
    /\ nModelCalls' = 0
    /\ dispatched' = <<>>
    /\ UNCHANGED <<context, varied>>

\* create_invoice_agent(): a new Agent with an empty history and a new
\* environment, in place of the one used so far
NewAgent ==
    /\ pc \in {"done", "raised"}
    /\ agents < MaxAgents
    /\ agents' = agents + 1
    /\ pc' = "idle"
    /\ messages' = <<>>
    /\ context' = EmptyMap
    /\ context0' = EmptyMap
    /\ history0' = <<>>
    /\ invocations' = 0
    /\ iteration' = 0
    /\ function_calls' = <<>>
    /\ function_responses' = <<>>
    /\ result' = [kind |-> "none", value |-> ""]
    /\ nModelCalls' = 0
    /\ dispatched' = <<>>
    /\ UNCHANGED varied

ReuseNext ==
    \/ (\E u \in UserInputs : Process(u)) /\ UNCHANGED notReuse
    \/ NewAgent /\ UNCHANGED notReuse
    \/ ModelReplyPlain /\ UNCHANGED notAgent
    \/ (\E m \in ModelFailures : ModelFail(m)) /\ UNCHANGED notAgent
    \/ DispatchOne /\ UNCHANGED notAgent
    \/ EndRound /\ UNCHANGED notAgent

ReuseSpec == Init /\ [][ReuseNext]_vars

-----------------------------------------------------------------------------
(* The REST layer (src/invoice_agent/api.py): the routes over the shared   *)
(* ActionContext, and direct calls of the store tool on it, one at a time  *)

\* records that carry the fields InvoiceData requires
Sample1 == [invoice_number |-> "INV-1", date |-> "2024-01-15", total_amount |-> 1500]
Sample2 == [invoice_number |-> "INV-2", date |-> "2024-02-01", total_amount |-> 200]

\* the fields of InvoiceData without a default
RequiredFields == {"invoice_number", "date", "total_amount"}

\* InvoiceData(**rec) passes validation: the required fields are there and
\* the string fields are not None (total_amount is a number in every record
\* of the model)
Validates(rec) ==
    /\ RequiredFields \subseteq DOMAIN rec
    /\ rec.invoice_number # None
    /\ rec.date # None

\* the model InvoiceData(**rec) builds: the fields it declares, the optional
\* ones None when rec has none, and no other key of rec
InvoiceData(rec) ==
    [invoice_number |-> rec.invoice_number, date |-> rec.date,
     total_amount |-> rec.total_amount, vendor |-> DictGet(rec, "vendor"),
     line_items |-> DictGet(rec, "line_items")]

\* del d[k]
DictDel(d, k) == [x \in DOMAIN d \ {k} |-> d[x]]

\* what a route does: the shared context's backing dict afterwards and the
\* response
Handled(data, resp) == [data |-> data, resp |-> resp]

\* a _get_storage that hands out a fresh dict on every call
get_storage_AlwaysFresh(data) ==
    [storage |-> EmptyMap, data |-> CtxSet(data, "invoice_storage", EmptyMap)]

\* _get_storage(): the storage dict of the shared context, created and set
\* when get returns None (which is when the key is absent: no operation
\* sets it to None)
get_storage(data) ==
    IF ~CtxContains(data, "invoice_storage")
    THEN [storage |-> EmptyMap, data |-> CtxSet(data, "invoice_storage", EmptyMap)]
    ELSE [storage |-> CtxGet(data, "invoice_storage", None), data |-> data]

\* what prompt_llm_for_json gives the extraction of POST /invoices/process
ApiLlmOutcomes ==
    << [raised |-> FALSE, value |-> Sample1, error |-> ""],
       [raised |-> FALSE, value |-> Sample2, error |-> ""],
       [raised |-> FALSE, value |-> Rec2, error |-> ""],
       [raised |-> FALSE, value |-> RecNoId, error |-> ""],
       [raised |-> FALSE, value |-> RecEmptyId, error |-> ""],
       [raised |-> FALSE, value |-> RecNoneId, error |-> ""],
       [raised |-> TRUE, value |-> EmptyMap,
        error |-> "LLM did not return structured data"] >>

\* a route that keeps a record without invoice number under the empty key
\* before it answers 422
process_invoice_KeepsUnnumbered(data, llm) ==
    LET ext == extract_invoice_data(data, "document_text", llm)
    IN  IF ext.raised
        THEN Handled(data, Operation("process_invoice", "", EmptyMap, FALSE, 500,
                                     "Extraction failed: " \o ext.value.exc, {}))
        ELSE Handled(CtxSet(ext.data, "invoice_storage",
                            DictSet(CtxGet(ext.data, "invoice_storage", EmptyMap),
                                    "", ext.value.dict)),
                     Operation("process_invoice", "", ext.value.dict, FALSE, 422,
                               "Could not extract an invoice number from the provided text",
                               {}))

\* POST /invoices/process
process_invoice(data, llm) ==
    LET ext == extract_invoice_data(data, "document_text", llm)
    IN  IF ext.raised
        THEN Handled(data, Operation("process_invoice", "", EmptyMap, FALSE, 500,
                                     "Extraction failed: " \o ext.value.exc, {}))
        ELSE
        LET extracted == ext.value.dict
            invoice_number == DictGet(extracted, "invoice_number")
        IN  IF Falsy(invoice_number)
            THEN Handled(ext.data,
                         Operation("process_invoice", "", extracted, FALSE, 422,
                                   "Could not extract an invoice number from the provided text",
                                   {}))
            ELSE
            LET st == store_invoice(ext.data, extracted)
            IN  IF st.raised
                THEN Handled(st.data,
                             Operation("process_invoice", invoice_number, extracted,
                                       FALSE, 422, st.value.exc, {}))
                ELSE IF ~Validates(extracted)
                THEN Handled(st.data,
                             Operation("process_invoice", invoice_number, extracted,
                                       FALSE, 500, "Internal Server Error", {}))
                ELSE Handled(st.data,
                             Operation("process_invoice", invoice_number, extracted,
                                       FALSE, 200, st.value.dict.message,
                                       {InvoiceData(extracted)}))

\* GET /invoices
list_invoices(data) ==
    LET g == get_storage(data)
    IN  IF \E k \in DOMAIN g.storage : ~Validates(g.storage[k])
        THEN Handled(g.data, Operation("list_invoices", "", EmptyMap, FALSE, 500,
                                       "Internal Server Error", {}))
        ELSE Handled(g.data,
                     Operation("list_invoices", "", EmptyMap, FALSE, 200, "",
                               {InvoiceData(g.storage[k]) : k \in DOMAIN g.storage}))

\* GET /invoices/{invoice_number}
get_invoice(data, invoice_number) ==
    LET g == get_storage(data)
    IN  IF invoice_number \notin DOMAIN g.storage
        THEN Handled(g.data,
                     Operation("get_invoice", invoice_number, EmptyMap, FALSE, 404,
                               "Invoice " \o invoice_number \o " not found", {}))
        ELSE IF ~Validates(g.storage[invoice_number])
        THEN Handled(g.data,
                     Operation("get_invoice", invoice_number, EmptyMap, FALSE, 500,
                               "Internal Server Error", {}))
        ELSE Handled(g.data,
                     Operation("get_invoice", invoice_number, EmptyMap, FALSE, 200, "",
                               {InvoiceData(g.storage[invoice_number])}))

\* a delete that empties the storage
delete_invoice_ClearsAll(data, invoice_number) ==
    LET g == get_storage(data)
    IN  IF invoice_number \notin DOMAIN g.storage
        THEN Handled(g.data,
                     Operation("delete_invoice", invoice_number, EmptyMap, FALSE, 404,
                               "Invoice " \o invoice_number \o " not found", {}))
        ELSE Handled(CtxSet(g.data, "invoice_storage", EmptyMap),
                     Operation("delete_invoice", invoice_number, EmptyMap, FALSE, 200,
                               "Deleted invoice " \o invoice_number, {}))

\* a delete that does not look whether the record is there
delete_invoice_Unchecked(data, invoice_number) ==
    LET g == get_storage(data)
    IN  Handled(CtxSet(g.data, "invoice_storage",
                       DictDel(g.storage, invoice_number)),
                Operation("delete_invoice", invoice_number, EmptyMap, FALSE, 200,
                          "Deleted invoice " \o invoice_number, {}))

\* DELETE /invoices/{invoice_number}
delete_invoice(data, invoice_number) ==
    LET g == get_storage(data)
    IN  IF invoice_number \notin DOMAIN g.storage
        THEN Handled(g.data,
                     Operation("delete_invoice", invoice_number, EmptyMap, FALSE, 404,
                               "Invoice " \o invoice_number \o " not found", {}))
        ELSE Handled(CtxSet(g.data, "invoice_storage",
                            DictDel(g.storage, invoice_number)),
                     Operation("delete_invoice", invoice_number, EmptyMap, FALSE, 200,
                               "Deleted invoice " \o invoice_number, {}))

\* store_invoice(ctx, rec) called on the shared context, as the tests call it
StoreCall(data, rec) ==
    LET st == store_invoice(data, rec)
    IN  Handled(st.data,
                Operation("store_invoice", DictGet(rec, "invoice_number"), rec,
                          st.raised, 0,
                          IF st.raised THEN st.value.exc ELSE st.value.dict.message,
                          {}))

\* the records handed to store_invoice, and the identifiers asked of the routes
StoreInputs == {Rec1, Rec1b, Rec2, Sample1, RecNoId, RecEmptyId, RecNoneId}
Identifiers == {"INV-1", "INV-2", "INV-9"}

\* one operation on the shared context, start to end
ApiDo(h) ==
    /\ api_before' = api_data
    /\ api_data' = h.data
    /\ api_prev' = api_last
    /\ api_last' = h.resp

StoreInvoice == \E rec \in StoreInputs : ApiDo(StoreCall(api_data, rec))

ProcessInvoice ==
    \E i \in 1..Len(ApiLlmOutcomes) : ApiDo(process_invoice(api_data, ApiLlmOutcomes[i]))

ListInvoices == ApiDo(list_invoices(api_data))

GetInvoice == \E k \in Identifiers : ApiDo(get_invoice(api_data, k))

DeleteInvoice == \E k \in Identifiers : ApiDo(delete_invoice(api_data, k))

\* what generate_response does when it is called: it returns a reply or
\* raises
Reply(parts) == [raised |-> FALSE, parts |-> parts, error |-> ""]
Failure(msg) == [raised |-> TRUE, parts |-> <<>>, error |-> msg]

\* what the model does in the run of one /agent/process request, call by
\* call: a text at once; a store and then a text; two rounds of stores, some
\* of them rejected, and then a text; an extraction and a store of its
\* result; a store and then a failure; a failure at once; and ten replies
\* that all ask for a store
AgentScripts ==
    { << Reply(FinalText) >>,
      << Reply(<< CallPart("store_invoice", [invoice_data |-> Rec1]) >>),
         Reply(FinalText) >>,
      << Reply(<< CallPart("store_invoice", [invoice_data |-> Rec1]),
                  CallPart("store_invoice", [invoice_data |-> Rec1b]) >>),
         Reply(<< CallPart("store_invoice", [invoice_data |-> Rec2]),
                  CallPart("store_invoice", [invoice_data |-> RecEmptyId]),
                  CallPart("nope", EmptyMap) >>),
         Reply(FinalText) >>,
      << Reply(<< CallPart("extract_invoice_data", [document_text |-> "doc"]) >>),
         Reply(<< CallPart("store_invoice", [invoice_data |-> Rec2]) >>),
         Reply(FinalText) >>,
      << Reply(<< CallPart("store_invoice", [invoice_data |-> Rec2]) >>),
         Failure("LLM down") >>,
      << Failure("LLM down") >>,
      [i \in 1..max_iterations |->
          Reply(<< CallPart("store_invoice", [invoice_data |-> Rec1]) >>)] }

\* the n-th call of generate_response in a run (a script that is over is
\* followed by the plain text)
ReplyAt(script, n) == IF n <= Len(script) THEN script[n] ELSE Reply(FinalText)

\* an Agent: its history and the backing dict of its environment's context
AgentOf(msgs, data) == [messages |-> msgs, context |-> data]

\* what a call of Agent.process leaves: whether it raised, what it returned
\* or raised, the Agent afterwards, and the tool calls it made
Ran(raised, value, msgs, data, log) ==
    [raised |-> raised, value |-> value, agent |-> AgentOf(msgs, data), log |-> log]

RECURSIVE DispatchAll(_, _, _, _)
\* for fc_part in function_calls: the context's dict, the result entries and
\* the log after the calls
DispatchAll(calls, data, responses, log) ==
    IF calls = <<>> THEN [data |-> data, responses |-> responses, log |-> log]
    ELSE LET d == DispatchCall(Head(calls).function_call, data, LlmOutcomes[1])
         IN  DispatchAll(Tail(calls), d.data, AppendResponse(responses, d.part),
                         Append(log, d.log))

RECURSIVE Loop(_, _, _, _, _)
\* for _ in range(max_iterations), after n passes
Loop(script, n, msgs, data, log) ==
    IF ~LoopContinues(n) THEN Ran(FALSE, Sentinel, msgs, data, log)
    ELSE LET reply == ReplyAt(script, n + 1)
         IN  IF reply.raised THEN Ran(TRUE, reply.error, msgs, data, log)
             ELSE LET replied == Append(msgs, Content("model", reply.parts))
                      calls == FunctionCalls(reply.parts)
                  IN  IF calls = <<>>
                      THEN Ran(FALSE, JoinText(reply.parts), replied, data, log)
                      ELSE LET d == DispatchAll(calls, data, <<>>, log)
                           IN  Loop(script, n + 1,
                                    WithResultTurn(replied, d.responses),
                                    d.data, d.log)

\* agent.process(user_input), run from its start to its end
AgentProcessRun(agent, user_input, script) ==
    Loop(script, 0, Entered(agent.messages, user_input), agent.context, <<>>)

\* what is noted of the Agent of a /agent/process request: the Agent as
\* create_invoice_agent returned it, the Agent after process, and the tool
\* calls process made
AgentRun(ran, created, agent, log) ==
    [ran |-> ran, created |-> created, agent |-> agent, log |-> log]

NoAgentRun == AgentRun(FALSE, AgentOf(<<>>, EmptyMap), AgentOf(<<>>, EmptyMap), <<>>)

\* a module that keeps one Agent and hands it to every request
create_invoice_agent_Singleton(previous) == previous

\* create_invoice_agent(): a new Agent (its history empty) around a new
\* PythonEnvironment (its context empty), whatever Agent there was before
create_invoice_agent(previous) == AgentOf(<<>>, EmptyMap)

\* POST /agent/process: what it leaves of the shared context, its response
\* (in body the records of stored_invoices), and the run of its Agent
agent_process(data, previous, script) ==
    LET created == create_invoice_agent(previous)
        run == AgentProcessRun(created,
                               "Please process the following invoice and store it",
                               script)
        stored == CtxGet(run.agent.context, "invoice_storage", EmptyMap)
    IN  [data |-> data,
         resp |-> IF run.raised
                  THEN Operation("agent_process", "", EmptyMap, FALSE, 500,
                                 "Agent processing failed: " \o run.value, {})
                  ELSE Operation("agent_process", "", EmptyMap, FALSE, 200,
                                 run.value, {stored[k] : k \in DOMAIN stored}),
         run |-> AgentRun(TRUE, created, run.agent, run.log)]

AgentProcess ==
    \E script \in AgentScripts :
        LET h == agent_process(api_data, api_agent.agent, script)
        IN  /\ ApiDo(h)
            /\ api_agent' = h.run

ApiNext ==
    \/ StoreInvoice /\ UNCHANGED notApi
    \/ ProcessInvoice /\ UNCHANGED notApi
    \/ ListInvoices /\ UNCHANGED notApi
    \/ GetInvoice /\ UNCHANGED notApi
    \/ DeleteInvoice /\ UNCHANGED notApi
    \/ AgentProcess /\ UNCHANGED notRest

ApiSpec == Init /\ [][ApiNext]_vars

-----------------------------------------------------------------------------
(* The REST layer with its handlers running at the same time: the routes   *)
(* are plain functions, which the server runs on threads of a pool; every  *)
(* step is one access of a handler to the shared context or to a dict.     *)
(* store_invoice is taken as one step.                                     *)

\* the backing dict of the shared context, with the storage dict by value
SharedData == IF c_ref = 0 THEN EmptyMap ELSE [invoice_storage |-> c_heap[c_ref]]

\* the dict objects something still refers to, when the context holds ref
\* and the threads are as in threads
Referenced(ref, threads) == {ref} \cup {threads[t].storage : t \in Threads}

\* a dict object nothing refers to
NewObject(ref, threads) == CHOOSE o \in Objects : o \notin Referenced(ref, threads)

\* the heap once the dicts nothing refers to are gone
Collected(heap, ref, threads) ==
    [o \in Objects |-> IF o \in Referenced(ref, threads) THEN heap[o] ELSE EmptyMap]

\* the handler of thread t answers: the thread is free for the next request
Answered(t, status) ==
    [c_thread EXCEPT ![t] = Thread("idle", c_thread[t].op, c_thread[t].key, 0, 0, status)]

\* the handler of thread t goes on at pc_
GoesOn(t, pc_) == [c_thread EXCEPT ![t].pc = pc_]

\* POST /invoices/process on thread t: extraction and validation touch
\* nothing shared, store_invoice is one step
ConcProcessInvoice(t) ==
    /\ c_thread[t].pc = "idle"
    /\ \E i \in 1..Len(ApiLlmOutcomes) :
         LET h == process_invoice(SharedData, ApiLlmOutcomes[i])
             stored == CtxContains(h.data, "invoice_storage")
             ref == IF c_ref = 0 /\ stored THEN NewObject(c_ref, c_thread) ELSE c_ref
             threads == [c_thread EXCEPT
                            ![t] = Thread("idle", "process_invoice", h.resp.key, 0, 0,
                                          h.resp.status)]
         IN  /\ c_ref' = ref
             /\ c_heap' = IF stored
                          THEN [c_heap EXCEPT ![ref] = h.data.invoice_storage]
                          ELSE c_heap
             /\ c_thread' = threads
             /\ c_acked' = IF h.resp.status = 200 THEN c_acked \cup {h.resp.key}
                           ELSE c_acked

\* a request of a route that starts with storage = _get_storage() arrives
\* on thread t
ConcRequest(t) ==
    /\ c_thread[t].pc = "idle"
    /\ \E op \in {"list_invoices", "get_invoice", "delete_invoice"} :
         \E key \in (IF op = "list_invoices" THEN {""} ELSE {"INV-1", "INV-2"}) :
            c_thread' = [c_thread EXCEPT
                            ![t] = Thread("get_storage", op, key, 0, 0,
                                          c_thread[t].status)]
    /\ UNCHANGED <<c_ref, c_heap, c_acked>>

\* storage = get_context().get("invoice_storage"); if storage is None
GetStorageRead(t) ==
    /\ c_thread[t].pc = "get_storage"
    /\ c_thread' = [c_thread EXCEPT ![t].storage = c_ref,
                                     ![t].pc = IF c_ref = 0 THEN "init_storage"
                                               ELSE "body"]
    /\ UNCHANGED <<c_ref, c_heap, c_acked>>

\* storage = {}; get_context().set("invoice_storage", storage)
GetStorageSet(t) ==
    /\ c_thread[t].pc = "init_storage"
    /\ LET o == NewObject(c_ref, c_thread)
           threads == [c_thread EXCEPT ![t].storage = o, ![t].pc = "body"]
       IN  /\ c_ref' = o
           /\ c_thread' = threads
           /\ c_heap' = Collected([c_heap EXCEPT ![o] = EmptyMap], o, threads)
    /\ UNCHANGED c_acked

\* if invoice_number not in storage: raise HTTPException(404), in
\* get_invoice and in delete_invoice
ConcCheck(t) ==
    /\ c_thread[t].pc = "body"
    /\ c_thread[t].op \in {"get_invoice", "delete_invoice"}
    /\ LET threads == IF c_thread[t].key \in DOMAIN c_heap[c_thread[t].storage]
                      THEN GoesOn(t, "found")
                      ELSE Answered(t, 404)
       IN  /\ c_thread' = threads
           /\ c_heap' = Collected(c_heap, c_ref, threads)
    /\ UNCHANGED <<c_ref, c_acked>>

\* return InvoiceData(**storage[invoice_number]): the subscript raises
\* KeyError when the key has gone, which nothing catches
ConcFetch(t) ==
    /\ c_thread[t].pc = "found"
    /\ c_thread[t].op = "get_invoice"
    /\ LET storage == c_heap[c_thread[t].storage]
           key == c_thread[t].key
           threads == Answered(t, IF key \in DOMAIN storage /\ Validates(storage[key])
                                  THEN 200 ELSE 500)
       IN  /\ c_thread' = threads
           /\ c_heap' = Collected(c_heap, c_ref, threads)
    /\ UNCHANGED <<c_ref, c_acked>>

\* del storage[invoice_number]: raises KeyError when the key has gone,
\* which nothing catches
ConcDelete(t) ==
    /\ c_thread[t].pc = "found"
    /\ c_thread[t].op = "delete_invoice"
    /\ LET o == c_thread[t].storage
           key == c_thread[t].key
           there == key \in DOMAIN c_heap[o]
           threads == Answered(t, IF there THEN 200 ELSE 500)
       IN  /\ c_thread' = threads
           /\ c_heap' = Collected([c_heap EXCEPT ![o] = DictDel(c_heap[o], key)],
                                  c_ref, threads)
           /\ c_acked' = IF there /\ o = c_ref THEN c_acked \ {key} ELSE c_acked
    /\ UNCHANGED c_ref

\* [InvoiceData(**data) for data in storage.values()] starts: an empty dict
\* ends the iteration at once
ConcListStart(t) ==
    /\ c_thread[t].pc = "body"
    /\ c_thread[t].op = "list_invoices"
    /\ LET storage == c_heap[c_thread[t].storage]
           threads == IF DOMAIN storage = {} THEN Answered(t, 200)
                      ELSE [c_thread EXCEPT ![t].pc = "iterating",
                                            ![t].seen = Cardinality(DOMAIN storage)]
       IN  /\ c_thread' = threads
           /\ c_heap' = Collected(c_heap, c_ref, threads)
    /\ UNCHANGED <<c_ref, c_acked>>

\* the iteration goes on to its end: a dict whose size changed meanwhile
\* raises RuntimeError, a record that does not validate raises too, and
\* nothing catches either
ConcListEnd(t) ==
    /\ c_thread[t].pc = "iterating"
    /\ LET storage == c_heap[c_thread[t].storage]
           threads == Answered(t, IF /\ Cardinality(DOMAIN storage) = c_thread[t].seen
                                     /\ \A k \in DOMAIN storage : Validates(storage[k])
                                  THEN 200 ELSE 500)
       IN  /\ c_thread' = threads
           /\ c_heap' = Collected(c_heap, c_ref, threads)
    /\ UNCHANGED <<c_ref, c_acked>>

ConcNext ==
    \/ (\E t \in Threads : ConcProcessInvoice(t)) /\ UNCHANGED notConc
    \/ (\E t \in Threads : ConcRequest(t)) /\ UNCHANGED notConc
    \/ (\E t \in Threads : GetStorageRead(t)) /\ UNCHANGED notConc
    \/ (\E t \in Threads : GetStorageSet(t)) /\ UNCHANGED notConc
    \/ (\E t \in Threads : ConcCheck(t)) /\ UNCHANGED notConc
    \/ (\E t \in Threads : ConcFetch(t)) /\ UNCHANGED notConc
    \/ (\E t \in Threads : ConcDelete(t)) /\ UNCHANGED notConc
    \/ (\E t \in Threads : ConcListStart(t)) /\ UNCHANGED notConc
    \/ (\E t \in Threads : ConcListEnd(t)) /\ UNCHANGED notConc

ConcSpec == Init /\ [][ConcNext]_vars

-----------------------------------------------------------------------------
(* An ActionContext used on its own (src/invoice_agent/framework.py):      *)
(* constructed, then read and written through get, set and "in"            *)

\* the keys and values of the context, the defaults handed to get (None is
\* the default of the parameter), and the initial_data it is constructed with
ContextKeys == {"key", "exists", "missing"}
ContextValues == {"old", "new", None}
Defaults == {None, "fallback"}
InitialData ==
    {EmptyMap, [key |-> "old"], [exists |-> "new", key |-> None]}

\* self._data = initial_data or {}: an absent (None) or empty initial_data
\* gives a fresh empty dict
NewData(given, initial_data) ==
    IF ~given \/ initial_data = EmptyMap THEN EmptyMap ELSE initial_data

\* ActionContext(initial_data)
ContextNew ==
    \E given \in BOOLEAN, initial_data \in InitialData :
        /\ ctx_data' = NewData(given, initial_data)
        /\ ctx_before' = NewData(given, initial_data)
        /\ ctx_written' = IF given THEN initial_data ELSE EmptyMap
        /\ ctx_last' = ContextOp("new", "", "", "", FALSE)

\* ctx.set(key, value)
ContextSet ==
    \E key \in ContextKeys, value \in ContextValues :
        /\ ctx_data' = CtxSet(ctx_data, key, value)
        /\ ctx_before' = ctx_data
        /\ ctx_written' = [k \in DOMAIN ctx_written \cup {key} |->
                              IF k = key THEN value ELSE ctx_written[k]]
        /\ ctx_last' = ContextOp("set", key, value, "", FALSE)

\* ctx.get(key, default)
ContextGet ==
    \E key \in ContextKeys, default \in Defaults :
        /\ ctx_last' = ContextOp("get", key, default,
                                 CtxGet(ctx_data, key, default), FALSE)
        /\ ctx_before' = ctx_data
        /\ UNCHANGED <<ctx_data, ctx_written>>

\* key in ctx
ContextContains ==
    \E key \in ContextKeys :
        /\ ctx_last' = ContextOp("contains", key, "", "",
                                 CtxContains(ctx_data, key))
        /\ ctx_before' = ctx_data
        /\ UNCHANGED <<ctx_data, ctx_written>>

CtxNext ==
    \/ ContextNew /\ UNCHANGED notCtx
    \/ ContextSet /\ UNCHANGED notCtx
    \/ ContextGet /\ UNCHANGED notCtx
    \/ ContextContains /\ UNCHANGED notCtx

CtxSpec == Init /\ [][CtxNext]_vars

-----------------------------------------------------------------------------
(* The tool registry (src/invoice_agent/framework.py): the global          *)
(* _registered_tools filled by the register_tool decorator, and one        *)
(* PythonActionRegistry object.  A Python dict whose order of insertion    *)
(* matters is a sequence of [key, value] entries with distinct keys; an    *)
(* Optional value is a sequence, empty for None.                           *)

ODKeys(d) == {d[i].key : i \in 1..Len(d)}

ODIndex(d, k) == CHOOSE i \in 1..Len(d) : d[i].key = k

\* d.get(k)
ODGet(d, k) == IF k \in ODKeys(d) THEN <<d[ODIndex(d, k)].value>> ELSE <<>>

\* d[k] = v: an existing key keeps its place, a new one goes last
ODSet(d, k, v) ==
    IF k \in ODKeys(d)
    THEN [d EXCEPT ![ODIndex(d, k)] = [key |-> k, value |-> v]]
    ELSE Append(d, [key |-> k, value |-> v])

\* del d[k]
ODDel(d, k) == SelectSeq(d, LAMBDA e : e.key # k)

\* a parameter of a signature: its name, its annotation and whether it has
\* a default
Param(name, annotation, has_default) ==
    [name |-> name, annotation |-> annotation, has_default |-> has_default]

\* the functions that get registered: def greet(name: str), with a docstring;
\* def ctx_tool(action_context: ActionContext, value: str), with a docstring;
\* and a later def ctx_tool(action_context: ActionContext, value: str,
\* limit: int = 10), without one
Greet ==
    [fn |-> "greet#1", name |-> "greet", doc |-> "Say hello.",
     params |-> <<Param("name", "str", FALSE)>>]
CtxTool ==
    [fn |-> "ctx_tool#1", name |-> "ctx_tool", doc |-> "Tool with context.",
     params |-> <<Param("action_context", "ActionContext", FALSE),
                  Param("value", "str", FALSE)>>]
CtxTool2 ==
    [fn |-> "ctx_tool#2", name |-> "ctx_tool", doc |-> None,
     params |-> <<Param("action_context", "ActionContext", FALSE),
                  Param("value", "str", FALSE),
                  Param("limit", "int", TRUE)>>]

\* the applications of the decorator: the function and the tags argument
\* (empty for None, else the list)
Registrations ==
    { [func |-> Greet, tags |-> <<>>],
      [func |-> CtxTool, tags |-> << <<"test">> >>],
      [func |-> CtxTool2, tags |-> <<>>] }

\* the tool_info the decorator builds: tags or [], func.__doc__ or ""
ToolInfo(func, tags) ==
    [function |-> func, name |-> func.name,
     tags |-> IF tags = <<>> THEN <<>> ELSE tags[1],
     doc |-> IF Falsy(func.doc) THEN "" ELSE func.doc]

\* a decorator that leaves a name that is already registered as it is
register_tool_KeepFirst(tools, func, tags) ==
    IF func.name \in ODKeys(tools) THEN tools
    ELSE ODSet(tools, func.name, ToolInfo(func, tags))

\* register_tool(tags)(func): _registered_tools afterwards
register_tool(tools, func, tags) == ODSet(tools, func.name, ToolInfo(func, tags))

\* get_registered_tools(): _registered_tools.copy(), a new dict with the
\* same entries in the same order
get_registered_tools(tools) == tools

\* PythonActionRegistry.get_tools: the dict _tools is bound to once the call
\* is over (a copy of the global registry when _tools was empty), which is
\* also the dict the call returns
get_tools(own, global) == IF own = <<>> THEN get_registered_tools(global) ELSE own

\* a get_tool that subscripts the dict
get_tool_Subscript(tools, name) ==
    IF name \in ODKeys(tools)
    THEN [raised |-> FALSE, entry |-> ODGet(tools, name)]
    ELSE [raised |-> TRUE, entry |-> <<>>]

\* PythonActionRegistry.get_tool on the dict get_tools returned
get_tool(tools, name) == [raised |-> FALSE, entry |-> ODGet(tools, name)]

\* the names asked of get_tool, and what a caller puts into a dict it holds
ToolNames == {"greet", "ctx_tool", "nonexistent"}
Injected == ToolInfo(Greet, << <<"injected">> >>)

RegisterTool ==
    \E r \in Registrations :
        /\ registered_tools' = register_tool(registered_tools, r.func, r.tags)
        /\ reg_log' = DictSet(reg_log, r.func.name, ToolInfo(r.func, r.tags))
        /\ reg_last' = RegistryOp("register_tool", r.func.name, FALSE, <<>>)
        /\ UNCHANGED <<registry_tools, held>>

\* clear_registered_tools()
ClearRegisteredTools ==
    /\ registered_tools' = <<>>
    /\ reg_log' = EmptyMap
    /\ reg_last' = RegistryOp("clear_registered_tools", "", FALSE, <<>>)
    /\ UNCHANGED <<registry_tools, held>>

\* tools = get_registered_tools(): the caller holds a copy
GetRegisteredTools ==
    /\ held' = Held("get_registered_tools", FALSE,
                    get_registered_tools(registered_tools))
    /\ reg_last' = RegistryOp("get_registered_tools", "", FALSE, <<>>)
    /\ UNCHANGED <<registered_tools, registry_tools, reg_log>>

\* registry = PythonActionRegistry(): a new object with an empty _tools
NewRegistry ==
    /\ registry_tools' = <<>>
    /\ held' = [held EXCEPT !.live = FALSE]
    /\ reg_last' = RegistryOp("PythonActionRegistry", "", FALSE, <<>>)
    /\ UNCHANGED <<registered_tools, reg_log>>

\* registry.load_tools(): _tools is bound to a new copy
LoadTools ==
    /\ registry_tools' = get_registered_tools(registered_tools)
    /\ held' = [held EXCEPT !.live = FALSE]
    /\ reg_last' = RegistryOp("load_tools", "", FALSE, <<>>)
    /\ UNCHANGED <<registered_tools, reg_log>>

\* tools = registry.get_tools(): the caller holds the dict _tools is bound to
GetTools ==
    /\ registry_tools' = get_tools(registry_tools, registered_tools)
    /\ held' = Held("get_tools", TRUE, get_tools(registry_tools, registered_tools))
    /\ reg_last' = RegistryOp("get_tools", "", FALSE, <<>>)
    /\ UNCHANGED <<registered_tools, reg_log>>

\* registry.get_tool(name); a dict held from before is no longer the one
\* _tools is bound to when the call loaded a new copy
GetTool ==
    \E name \in ToolNames :
        LET tools == get_tools(registry_tools, registered_tools)
            got == get_tool(tools, name)
        IN  /\ registry_tools' = tools
            /\ held' = [held EXCEPT !.live = held.live /\ registry_tools # <<>>]
            /\ reg_last' = RegistryOp("get_tool", name, got.raised, got.entry)
            /\ UNCHANGED <<registered_tools, reg_log>>

\* the caller changes the dict it holds: it deletes an entry, replaces one
\* or adds one; the registry object sees the change when the dict is the one
\* its _tools is bound to
MutateHeld ==
    /\ held.source # "none"
    /\ \E changed \in
            {ODDel(held.tools, k) : k \in ODKeys(held.tools)}
            \cup {ODSet(held.tools, k, Injected) : k \in ODKeys(held.tools)}
            \cup {ODSet(held.tools, "injected", Injected)} :
         /\ held' = [held EXCEPT !.tools = changed]
         /\ registry_tools' = IF held.live THEN changed ELSE registry_tools
    /\ reg_last' = RegistryOp("mutate", "", FALSE, <<>>)
    /\ UNCHANGED <<registered_tools, reg_log>>

RegNext ==
    \/ RegisterTool /\ UNCHANGED notReg
    \/ ClearRegisteredTools /\ UNCHANGED notReg
    \/ GetRegisteredTools /\ UNCHANGED notReg
    \/ NewRegistry /\ UNCHANGED notReg
    \/ LoadTools /\ UNCHANGED notReg
    \/ GetTools /\ UNCHANGED notReg
    \/ GetTool /\ UNCHANGED notReg
    \/ MutateHeld /\ UNCHANGED notReg

RegSpec == Init /\ [][RegNext]_vars

\* functions registered with tags: def tagged_a() with ["alpha", "beta"],
\* def tagged_b() with ["beta"], def tagged_c() with ["gamma"], and greet
\* with no tags argument
TaggedA == [fn |-> "tagged_a#1", name |-> "tagged_a", doc |-> None, params |-> <<>>]
TaggedB == [fn |-> "tagged_b#1", name |-> "tagged_b", doc |-> None, params |-> <<>>]
TaggedC == [fn |-> "tagged_c#1", name |-> "tagged_c", doc |-> None, params |-> <<>>]

TagRegistrations ==
    { [func |-> TaggedA, tags |-> << <<"alpha", "beta">> >>],
      [func |-> TaggedB, tags |-> << <<"beta">> >>],
      [func |-> TaggedC, tags |-> << <<"gamma">> >>],
      [func |-> Greet, tags |-> <<>>] }

\* the tags asked of get_tools_by_tag
Tags == {"alpha", "beta", "gamma", "delta"}

\* a selection that takes every tool that has some tag
get_tools_by_tag_AnyTag(tools, tag) ==
    SelectSeq(tools, LAMBDA e : e.value.tags # <<>>)

\* {name: info for name, info in tools.items() if tag in info.get("tags", [])}
\* on the dict get_tools returned: a new dict, in the order of tools
get_tools_by_tag(tools, tag) ==
    SelectSeq(tools, LAMBDA e :
        \E i \in 1..Len(e.value.tags) : e.value.tags[i] = tag)

\* @register_tool(tags=...) on one of the tagged functions
RegisterTagged ==
    \E r \in TagRegistrations :
        /\ registered_tools' = register_tool(registered_tools, r.func, r.tags)
        /\ reg_log' = DictSet(reg_log, r.func.name, ToolInfo(r.func, r.tags))
        /\ reg_last' = RegistryOp("register_tool", r.func.name, FALSE, <<>>)
        /\ UNCHANGED <<registry_tools, held>>

\* by_tag = registry.get_tools_by_tag(tag): the caller holds the new dict
GetToolsByTag ==
    \E tag \in Tags :
        LET tools == get_tools(registry_tools, registered_tools)
        IN  /\ registry_tools' = tools
            /\ held' = Held("get_tools_by_tag", FALSE, get_tools_by_tag(tools, tag))
            /\ reg_last' = RegistryOp("get_tools_by_tag", tag, FALSE, <<>>)
            /\ UNCHANGED <<registered_tools, reg_log>>

TagNext ==
    \/ RegisterTagged /\ UNCHANGED notReg
    \/ ClearRegisteredTools /\ UNCHANGED notReg
    \/ NewRegistry /\ UNCHANGED notReg
    \/ LoadTools /\ UNCHANGED notReg
    \/ GetToolsByTag /\ UNCHANGED notReg

TagSpec == Init /\ [][TagNext]_vars

-----------------------------------------------------------------------------
(* The schema formatter (AgentFunctionCallingActionLanguage.format_tools), *)
(* called on the dict of a registry object as Agent.process calls it       *)

\* a map that has no entry of its own for float
TypeMap_FloatAsString(annotation) ==
    CASE annotation = "str" -> "string"
      [] annotation = "int" -> "integer"
      [] annotation = "bool" -> "boolean"
      [] annotation = "dict" -> "object"
      [] annotation = "list" -> "array"
      [] OTHER -> "string"

\* type_map.get(param.annotation, "string")
TypeMap(annotation) ==
    CASE annotation = "str" -> "string"
      [] annotation = "int" -> "integer"
      [] annotation = "float" -> "number"
      [] annotation = "bool" -> "boolean"
      [] annotation = "dict" -> "object"
      [] annotation = "list" -> "array"
      [] OTHER -> "string"

\* a pass over the parameters that skips none
Declared_All(params) == params

\* the parameters the inner loop does not skip
Declared(params) == SelectSeq(params, LAMBDA p : p.name # "action_context")

\* properties: one entry per declared parameter, in the order of the signature
Properties(params) ==
    [i \in 1..Len(Declared(params)) |->
        [key |-> Declared(params)[i].name,
         value |-> [type |-> TypeMap(Declared(params)[i].annotation)]]]

\* required: the declared parameters whose default is Parameter.empty
Required(params) ==
    LET r == SelectSeq(Declared(params), LAMBDA p : ~p.has_default)
    IN  [i \in 1..Len(r) |-> r[i].name]

\* the declaration appended for the entry name -> info
Declaration(name, info) ==
    [name |-> name,
     description |-> info.doc,
     parameters |-> [type |-> "object",
                     properties |-> Properties(info.function.params),
                     required |-> Required(info.function.params)]]

\* format_tools(tools): one declaration per entry, in the order of the dict
format_tools(tools) ==
    [i \in 1..Len(tools) |-> Declaration(tools[i].key, tools[i].value)]

\* a formatter that empties the dict it is given, entry by entry
FormatCall_Popping(tools) == [formatted |-> format_tools(tools), tools |-> <<>>]

\* what a call of format_tools does: the list it returns, and the dict it
\* was given as the call leaves it (the code only reads it)
FormatCall(tools) == [formatted |-> format_tools(tools), tools |-> tools]

\* tools = self.action_registry.get_tools();
\* formatted_tools = self.agent_language.format_tools(tools)
FormatTools ==
    LET tools == get_tools(registry_tools, registered_tools)
        call == FormatCall(tools)
    IN  /\ registry_tools' = call.tools
        /\ held' = [held EXCEPT !.live = held.live /\ registry_tools # <<>>]
        /\ fmt_prev' = fmt_last
        /\ fmt_last' = FormatCalled(TRUE, tools, call.formatted)
        /\ reg_last' = RegistryOp("format_tools", "", FALSE, <<>>)
        /\ UNCHANGED <<registered_tools, reg_log>>

FormatNext ==
    \/ RegisterTool /\ UNCHANGED notReg
    \/ ClearRegisteredTools /\ UNCHANGED notReg
    \/ NewRegistry /\ UNCHANGED notReg
    \/ FormatTools /\ UNCHANGED notFmt

FormatSpec == Init /\ [][FormatNext]_vars

\* functions with typed parameters: def add(a: int, b: int);
\* def typed_tool(s: str, i: int, f: float, b: bool, d: dict, l: list);
\* and def loose_tool(action_context: ActionContext, x, raw: bytes,
\* ctx: ActionContext, opt: Optional[str] = None, n: int = 0, note=None),
\* whose parameter x has no annotation (Parameter.empty)
Add ==
    [fn |-> "add#1", name |-> "add", doc |-> "Add two numbers.",
     params |-> <<Param("a", "int", FALSE), Param("b", "int", FALSE)>>]
TypedTool ==
    [fn |-> "typed_tool#1", name |-> "typed_tool", doc |-> "Typed tool.",
     params |-> <<Param("s", "str", FALSE), Param("i", "int", FALSE),
                  Param("f", "float", FALSE), Param("b", "bool", FALSE),
                  Param("d", "dict", FALSE), Param("l", "list", FALSE)>>]
LooseTool ==
    [fn |-> "loose_tool#1", name |-> "loose_tool", doc |-> None,
     params |-> <<Param("action_context", "ActionContext", FALSE),
                  Param("x", "empty", FALSE), Param("raw", "bytes", FALSE),
                  Param("ctx", "ActionContext", FALSE),
                  Param("opt", "Optional[str]", TRUE),
                  Param("n", "int", TRUE), Param("note", "empty", TRUE)>>]

TypedFunctions == {Add, TypedTool, LooseTool}

\* @register_tool() on one of the typed functions
RegisterTyped ==
    \E func \in TypedFunctions :
        /\ registered_tools' = register_tool(registered_tools, func, <<>>)
        /\ reg_log' = DictSet(reg_log, func.name, ToolInfo(func, <<>>))
        /\ reg_last' = RegistryOp("register_tool", func.name, FALSE, <<>>)
        /\ UNCHANGED <<registry_tools, held>>

SchemaNext ==
    \/ RegisterTyped /\ UNCHANGED notReg
    \/ ClearRegisteredTools /\ UNCHANGED notReg
    \/ NewRegistry /\ UNCHANGED notReg
    \/ FormatTools /\ UNCHANGED notFmt

SchemaSpec == Init /\ [][SchemaNext]_vars

-----------------------------------------------------------------------------
(* What the claims speak of, read off the history *)

Terminated == pc \in {"done", "raised"}

IsModelTurn(m) == m.role = "model"

IsResultTurn(m) ==
    /\ m.role = "user"
    /\ m.parts # <<>>
    /\ "function_response" \in DOMAIN m.parts[1]

\* the reply holds a tool-invocation request
RequestsTool(parts) == \E k \in 1..Len(parts) : "function_call" \in DOMAIN parts[k]

\* the replies the model gave so far, in order
ReplyTurns == SelectSeq(messages, IsModelTurn)

SomeFinalReply == \E k \in 1..Len(ReplyTurns) : ~RequestsTool(ReplyTurns[k].parts)

FirstFinalReply ==
    ReplyTurns[CHOOSE k \in 1..Len(ReplyTurns) :
        /\ ~RequestsTool(ReplyTurns[k].parts)
        /\ \A j \in 1..(k - 1) : RequestsTool(ReplyTurns[j].parts)].parts

\* what process is to return after the replies given
ExpectedReturn == IF SomeFinalReply THEN JoinText(FirstFinalReply) ELSE Sentinel

-----------------------------------------------------------------------------
(* C1 *)

\* C1 as stated: whenever process has ended, it made between 1 and 10 model
\* calls and returned normally, the joined text of the first reply without a
\* tool request if there is one among the replies, the sentinel otherwise.
C1_AlwaysReturnsNormally ==
    Terminated =>
        /\ nModelCalls \in 1..10
        /\ result = [kind |-> "return", value |-> ExpectedReturn]

\* What holds of an invocation in every state: it makes at least 1 and at
\* most 10 model calls (every state before the end has a next step).  When no model
\* call raises it returns normally, the joined text of the first reply
\* without a tool request if one occurs among the first 10 replies and the
\* sentinel otherwise, whatever the tools returned or raised; when a model
\* call raises, the invocation ends with that failure, before any text-only
\* reply was seen.
C1_EndsAsAmended ==
    /\ nModelCalls <= 10
    /\ Terminated => nModelCalls >= 1
    /\ pc = "done" =>
        /\ Len(ReplyTurns) = nModelCalls
        /\ result = [kind |-> "return", value |-> ExpectedReturn]
        /\ ~SomeFinalReply => nModelCalls = 10
    /\ pc = "raised" =>
        /\ result.kind = "raise"
        /\ result.value \in ModelFailures
        /\ Len(ReplyTurns) = nModelCalls - 1
        /\ ~SomeFinalReply
    /\ ~Terminated => ENABLED Next

\* C1 as amended: an invocation makes at least 1 and at most 10 model calls
\* and then ends; it returns the joined text of the first reply without a
\* tool request or, after 10 tool-requesting replies, the sentinel, unless a
\* model call raises, and then it ends with that failure.
C1_BoundedLoopEnds == []C1_EndsAsAmended /\ <>Terminated

\* a tool raised in one of three rounds and the fourth reply ended the loop
C1_Witness ==
    /\ pc = "done"
    /\ nModelCalls = 4
    /\ result = [kind |-> "return", value |-> "5"]
    /\ \E i \in 1..Len(dispatched) : dispatched[i].raised

-----------------------------------------------------------------------------
(* C2 *)

AllRepliesRequestTools ==
    \A k \in 1..Len(ReplyTurns) : RequestsTool(ReplyTurns[k].parts)

\* C2: when every reply of the model requests a tool, process ends after
\* exactly 10 model calls, not earlier and not later, and returns the
\* cap-exhaustion sentinel.
C2_CapAfterTenCalls ==
    (AllRepliesRequestTools /\ pc # "raised") =>
        /\ nModelCalls <= 10
        /\ pc = "done" <=> (nModelCalls = 10 /\ iteration = 10)
        /\ pc = "done" =>
             result = [kind |-> "return",
                       value |-> "Maximum iterations reached without a final response."]

\* ten tool-requesting replies, one of them not the plain add request
C2_Witness ==
    /\ pc = "done"
    /\ AllRepliesRequestTools
    /\ Len(ReplyTurns) = 10
    /\ varied = 1

-----------------------------------------------------------------------------
(* C3 *)

RECURSIVE NewlineJoined(_)
\* the non-empty text segments of a reply, each followed by a newline
\* except the last
NewlineJoined(parts) ==
    IF parts = <<>> THEN ""
    ELSE LET last == parts[Len(parts)]
             front == SubSeq(parts, 1, Len(parts) - 1)
             init == NewlineJoined(front)
         IN  IF "text" \in DOMAIN last /\ last.text \notin {"", None}
             THEN (IF init = "" THEN last.text ELSE init \o "\n" \o last.text)
             ELSE init

\* C3: when the first reply holds no tool request, process has ended with
\* one model call, no dispatch, and the reply's text segments joined by
\* newline as its result (the empty string when there is none).
C3_TextOnlyFirstReply ==
    (Len(ReplyTurns) >= 1 /\ ~RequestsTool(ReplyTurns[1].parts)) =>
        /\ pc = "done"
        /\ nModelCalls = 1
        /\ Len(messages) = 2
        /\ dispatched = <<>> /\ function_responses = <<>>
        /\ result = [kind |-> "return",
                     value |-> NewlineJoined(ReplyTurns[1].parts)]

\* the first reply had two text segments
C3_Witness ==
    /\ pc = "done"
    /\ nModelCalls = 1
    /\ result = [kind |-> "return", value |-> "a\nb"]

-----------------------------------------------------------------------------
(* Requests and result entries, read off the history *)

IsCallPart(p) == "function_call" \in DOMAIN p

\* the tool-invocation requests of a reply, in the order the model emitted them
Requests(parts) == SelectSeq(parts, IsCallPart)

RECURSIVE AllParts(_)
\* the parts of a sequence of turns, in order
AllParts(turns) ==
    IF turns = <<>> THEN <<>> ELSE Head(turns).parts \o AllParts(Tail(turns))

\* every request of every reply so far
AllRequests == Requests(AllParts(ReplyTurns))

ResultTurns == SelectSeq(messages, IsResultTurn)

\* every result entry so far: those of the appended result turns, then
\* those collected for the reply being dispatched
AllEntries == AllParts(ResultTurns) \o function_responses

\* the requests of the replies are dispatched one by one, none skipped: all
\* of them once the dispatch of a reply is over
DispatchComplete ==
    /\ Len(dispatched) + Len(function_calls) = Len(AllRequests)
    /\ Len(AllEntries) = Len(dispatched)
    /\ pc # "dispatching" => function_calls = <<>>
    /\ \A i \in 1..Len(dispatched) :
         /\ dispatched[i].name = AllRequests[i].function_call.name
         /\ AllEntries[i].function_response.name = dispatched[i].name

\* process raises only what a model call raised
OnlyModelFailurePropagates ==
    pc = "raised" =>
        /\ result.kind = "raise"
        /\ result.value \in ModelFailures
        /\ Len(ReplyTurns) = nModelCalls - 1

-----------------------------------------------------------------------------
(* C4 *)

\* C4: when a called tool raises, be it in its body or because the
\* model-supplied arguments do not fit its parameters, the result entry of
\* that invocation is the error payload with the failure's message, process
\* does not raise it, and the other invocations of the reply are dispatched.
C4_ToolFailureCaptured ==
    /\ \A i \in 1..Len(dispatched) :
         (dispatched[i].called /\ dispatched[i].raised) =>
            AllEntries[i].function_response =
                [name |-> dispatched[i].name,
                 response |-> [error |-> dispatched[i].value.exc]]
    /\ OnlyModelFailurePropagates
    /\ DispatchComplete

\* add was requested without its argument b: the call raised, the
\* store_invoice request after it was served, and the loop went on to the end
C4_Witness ==
    /\ pc = "done"
    /\ SomeFinalReply
    /\ \E i \in 1..(Len(dispatched) - 1) :
         /\ dispatched[i].name = "add"
         /\ dispatched[i].raised
         /\ dispatched[i + 1].name = "store_invoice"
         /\ dispatched[i + 1].called /\ ~dispatched[i + 1].raised
         /\ "error" \in DOMAIN AllEntries[i].function_response.response

-----------------------------------------------------------------------------
(* C5 *)

\* a step that dispatches a request for a tool that is not registered
UnknownToolStep ==
    /\ pc = "dispatching"
    /\ function_calls # <<>>
    /\ Head(function_calls).function_call.name \notin RegisteredTools

\* C5: a request for an unregistered tool gets a result entry whose error
\* payload names that tool, no tool is called for it (the context stays as
\* it is), the other requests of the reply are dispatched, and the loop goes
\* on: process does not raise.
C5_UnknownToolReported ==
    /\ [](\A i \in 1..Len(dispatched) :
            AllRequests[i].function_call.name \notin RegisteredTools =>
                /\ ~dispatched[i].called
                /\ AllEntries[i].function_response =
                     [name |-> AllRequests[i].function_call.name,
                      response |-> [error |-> "Unknown tool "
                                     \o AllRequests[i].function_call.name]])
    /\ [](OnlyModelFailurePropagates /\ DispatchComplete)
    /\ [][UnknownToolStep => (context' = context /\ pc' = "dispatching")]_vars

\* an unknown tool was requested first in a reply, the store_invoice request
\* after it was served, and the model was called again
C5_Witness ==
    /\ pc = "done"
    /\ nModelCalls >= 2
    /\ \E i \in 1..(Len(dispatched) - 1) :
         /\ ~dispatched[i].called
         /\ dispatched[i + 1].called
         /\ "invoice_storage" \in DOMAIN context

-----------------------------------------------------------------------------
(* C6 *)

RECURSIVE RequestNames(_)
RequestNames(calls) ==
    IF calls = <<>> THEN <<>>
    ELSE <<Head(calls).function_call.name>> \o RequestNames(Tail(calls))

RECURSIVE EntryNames(_)
EntryNames(entries) ==
    IF entries = <<>> THEN <<>>
    ELSE <<Head(entries).function_response.name>> \o EntryNames(Tail(entries))

\* the i-th result entry is the answer to the i-th dispatched request
Answers(entry, d) ==
    LET response == entry.function_response.response IN
    IF ~d.called THEN DOMAIN response = {"error"}
    ELSE IF d.raised THEN response = [error |-> d.value.exc]
    ELSE IF "dict" \in DOMAIN d.value THEN response = d.value.dict
    ELSE DOMAIN response = {"result"}

\* C6: a reply with n >= 1 requests is followed by exactly one result turn
\* of n entries, the i-th named after and answering the i-th request, be it
\* a success or an error; while the reply is being dispatched the entries
\* collected and the requests left make up the requests in order; the tools
\* are called in the order of the requests.
C6_OneResultTurnInOrder ==
    /\ \A j \in 1..Len(messages) :
         (IsModelTurn(messages[j]) /\ RequestsTool(messages[j].parts)) =>
            IF j = Len(messages)
            THEN /\ pc = "dispatching"
                 /\ EntryNames(function_responses) \o RequestNames(function_calls)
                        = RequestNames(Requests(messages[j].parts))
            ELSE /\ IsResultTurn(messages[j + 1])
                 /\ EntryNames(messages[j + 1].parts)
                        = RequestNames(Requests(messages[j].parts))
                 /\ j + 2 <= Len(messages) => IsModelTurn(messages[j + 2])
    /\ \A j \in 1..Len(messages) :
         IsResultTurn(messages[j]) =>
            /\ j > 1
            /\ IsModelTurn(messages[j - 1])
            /\ RequestsTool(messages[j - 1].parts)
    /\ Len(AllEntries) = Len(dispatched)
    /\ \A i \in 1..Len(dispatched) :
         /\ dispatched[i].name = AllRequests[i].function_call.name
         /\ Answers(AllEntries[i], dispatched[i])

\* a reply with three requests got a result turn of three entries: a
\* success, an error, a success
C6_Witness ==
    \E j \in 2..Len(messages) :
        /\ IsResultTurn(messages[j])
        /\ Len(messages[j].parts) = 3
        /\ EntryNames(messages[j].parts) = <<"store_invoice", "store_invoice", "add">>
        /\ "error" \in DOMAIN messages[j].parts[2].function_response.response
        /\ messages[j].parts[3].function_response.response = [result |-> "5"]

-----------------------------------------------------------------------------
(* C7 *)

\* a step in which the model is called after the first call of the invocation
LaterModelCall == nModelCalls' = nModelCalls + 1 /\ nModelCalls >= 1

\* C7: a model call after the first is made only when every request of the
\* preceding reply has been dispatched and the result turn appended: the
\* history given to the call ends with that reply and its result turn, which
\* holds the answers of all its requests, return values included.
C7_ResultsRoutedBeforeNextCall ==
    [][LaterModelCall =>
        /\ pc = "awaiting"
        /\ function_calls = <<>> /\ function_responses = <<>>
        /\ Len(messages) >= 3
        /\ IsResultTurn(messages[Len(messages)])
        /\ IsModelTurn(messages[Len(messages) - 1])
        /\ EntryNames(messages[Len(messages)].parts)
             = RequestNames(Requests(messages[Len(messages) - 1].parts))
        /\ Len(AllParts(ResultTurns)) = Len(dispatched)
        /\ Len(dispatched) = Len(AllRequests)
        /\ \A i \in 1..Len(dispatched) :
             Answers(AllParts(ResultTurns)[i], dispatched[i])
      ]_vars

\* the model asked for add(a=2, b=3), saw the result "5" in the history of
\* its second call and answered "5"
C7_Witness ==
    /\ pc = "done"
    /\ Len(messages) = 4
    /\ Requests(messages[2].parts) = << CallPart("add", [a |-> 2, b |-> 3]) >>
    /\ messages[3] = Content("user", << ResponsePart("add", [result |-> "5"]) >>)
    /\ messages[4] = Content("model", << TextPart("5") >>)
    /\ result = [kind |-> "return", value |-> "5"]

-----------------------------------------------------------------------------
(* C8 *)

\* a step in which the model call raises: a call is made and no reply appended
ModelCallRaises == nModelCalls' = nModelCalls + 1 /\ messages' = messages

\* C8: a failure of the model call ends process with that failure: process
\* returns neither a text nor the sentinel, and dispatches nothing afterwards.
C8_ModelFailurePropagates ==
    /\ [][ModelCallRaises =>
            /\ pc' = "raised"
            /\ result'.kind = "raise"
            /\ result'.value \in ModelFailures
            /\ dispatched' = dispatched /\ context' = context
         ]_vars
    /\ [][pc = "raised" => (pc' = "raised" /\ dispatched' = dispatched
                            /\ messages' = messages /\ result' = result)]_vars
    /\ [](pc = "raised" => (function_calls = <<>> /\ function_responses = <<>>))

\* the third model call raised, after two rounds of dispatch
C8_Witness ==
    /\ pc = "raised"
    /\ nModelCalls = 3
    /\ Len(dispatched) >= 2
    /\ result = [kind |-> "raise", value |-> "LLM down"]

-----------------------------------------------------------------------------
(* C9 *)

\* a step that calls a registered tool
KnownToolStep ==
    /\ pc = "dispatching"
    /\ function_calls # <<>>
    /\ Head(function_calls).function_call.name \in RegisteredTools

\* C9: the context changes only in a step that calls a registered tool, so
\* as long as an invocation has called no tool the context is what it was
\* when process was entered.
C9_OnlyToolsWriteContext ==
    /\ [][context' # context => KnownToolStep]_vars
    /\ []((\A i \in 1..Len(dispatched) : ~dispatched[i].called)
            => context = context0)

\* an invocation that was only asked for an unknown tool has ended
C9_Witness ==
    /\ pc = "done"
    /\ Len(dispatched) >= 1
    /\ \A i \in 1..Len(dispatched) : ~dispatched[i].called
    /\ context = context0

-----------------------------------------------------------------------------
(* C10 *)

\* the record has no invoice number, an empty one, or a null one
NoIdentifier(rec) ==
    \/ "invoice_number" \notin DOMAIN rec
    \/ rec.invoice_number = ""
    \/ rec.invoice_number = None

\* a step in which store_invoice is called with a record without identifier
BadStoreStep ==
    /\ KnownToolStep
    /\ Head(function_calls).function_call.name = "store_invoice"
    /\ DOMAIN Head(function_calls).function_call.args
          \in {{"invoice_data"}, {"invoice_data", "action_context"}}
    /\ NoIdentifier(Head(function_calls).function_call.args.invoice_data)

\* the storage mapping of the context, empty when not initialized
StoredRecords ==
    IF "invoice_storage" \in DOMAIN context THEN context["invoice_storage"]
    ELSE EmptyMap

\* C10: storing a record whose invoice number is missing, empty or null
\* raises a failure with a message, and the context, its storage included,
\* is after the call what it was before it.
C10_BadStoreRejected ==
    /\ [][BadStoreStep =>
            /\ context' = context
            /\ dispatched'[Len(dispatched')].raised
            /\ dispatched'[Len(dispatched')].value.exc \notin {"", None}
         ]_vars
    /\ [](\A i \in 1..Len(dispatched) :
            (/\ dispatched[i].called
             /\ dispatched[i].name = "store_invoice"
             /\ "invoice_data" \in DOMAIN dispatched[i].kwargs
             /\ NoIdentifier(dispatched[i].kwargs.invoice_data))
            => /\ dispatched[i].raised
               /\ DOMAIN AllEntries[i].function_response.response = {"error"})

\* after INV-1 was stored, records without, with an empty and with a null
\* invoice number were rejected, and the storage still holds INV-1 alone
C10_Witness ==
    /\ Len(dispatched) >= 4
    /\ \E i \in 1..(Len(dispatched) - 3) :
         /\ dispatched[i].name = "store_invoice" /\ ~dispatched[i].raised
         /\ dispatched[i + 1].kwargs.invoice_data = RecNoId
         /\ dispatched[i + 2].kwargs.invoice_data = RecEmptyId
         /\ dispatched[i + 3].kwargs.invoice_data = RecNoneId
         /\ dispatched[i + 1].raised /\ dispatched[i + 2].raised
         /\ dispatched[i + 3].raised
    /\ StoredRecords = [k \in {"INV-1"} |-> Rec1]

-----------------------------------------------------------------------------
(* The stored records *)

\* the invoice_storage mapping of a context's backing dict, empty while the
\* key is not there
Storage(data) == CtxGet(data, "invoice_storage", EmptyMap)

\* a mapping: a function on its keys
IsMapping(v) == v = [k \in DOMAIN v |-> v[k]]

\* the operation stored its record: store_invoice returned, in a direct
\* call or inside POST /invoices/process
Stores(o) ==
    \/ o.op = "store_invoice" /\ ~o.raised
    \/ o.op = "process_invoice" /\ o.key # "" /\ o.status # 422

\* C11: when two records with the same non-empty identifier K are stored
\* one after the other, storage then holds under K the second record, the
\* entries under the other identifiers are as they were before the second
\* store, and the second store has not changed the number of entries.
C11_LastWriteWins ==
    (Stores(api_prev) /\ Stores(api_last) /\ api_prev.key = api_last.key) =>
        LET K == api_last.key
            before == Storage(api_before)
            after == Storage(api_data)
        IN  /\ ~Falsy(K)
            /\ K \in DOMAIN after
            /\ after[K] = api_last.rec
            /\ \A k \in DOMAIN before \ {K} :
                 k \in DOMAIN after /\ after[k] = before[k]
            /\ DOMAIN after = DOMAIN before
            /\ Cardinality(DOMAIN after) = Cardinality(DOMAIN before)

\* INV-1 is stored at 100 and then at 150 while INV-2 is also stored
C11_Witness ==
    /\ api_prev.op = "store_invoice" /\ api_prev.rec = Rec1 /\ ~api_prev.raised
    /\ api_last.op = "store_invoice" /\ api_last.rec = Rec1b /\ ~api_last.raised
    /\ "INV-2" \in DOMAIN Storage(api_before)
    /\ Storage(api_data)["INV-1"].total_amount = 150

\* C12: whatever store, process, list, fetch and delete operations have
\* run, every entry of invoice_storage kept under a key K is a record whose
\* invoice_number is K.
C12_StoredUnderOwnNumber ==
    \A K \in DOMAIN Storage(api_data) :
        LET rec == Storage(api_data)[K]
        IN  "invoice_number" \in DOMAIN rec /\ rec.invoice_number = K

\* two records are stored, one by the route and one by the tool, and a
\* delete has left one of them
C12_Witness ==
    /\ api_last.op = "delete_invoice" /\ api_last.status = 200
    /\ api_prev.op = "process_invoice" /\ api_prev.status = 200
    /\ DOMAIN Storage(api_before) = {"INV-1", "INV-2"}
    /\ Cardinality(DOMAIN Storage(api_data)) = 1

\* C13: once the invoice_storage key of the context is there, it stays
\* there and its value is a mapping after every operation of the store tool
\* and of the routes; the mapping is not swapped for an emptied one: the
\* only entry an operation takes out is the one a delete was asked to.
C13_StorageStaysMapping ==
    CtxContains(api_before, "invoice_storage") =>
        /\ CtxContains(api_data, "invoice_storage")
        /\ IsMapping(Storage(api_data))
        /\ \A k \in DOMAIN Storage(api_before) :
             \/ k \in DOMAIN Storage(api_data)
             \/ /\ api_last.op = "delete_invoice"
                /\ api_last.key = k
                /\ api_last.status = 200

\* storage holds a record put there by the store tool, and a route that
\* fetches the storage through _get_storage has run on it
C13_Witness ==
    /\ api_prev.op = "store_invoice" /\ ~api_prev.raised
    /\ api_last.op = "list_invoices"
    /\ Storage(api_before) # EmptyMap
    /\ Storage(api_data) = Storage(api_before)

-----------------------------------------------------------------------------
(* The context on its own *)

\* C14: on one context, get(k, d) returns the value of the latest set of k,
\* or the value k was constructed with, and d when k was never set; set(k, v)
\* leaves every other key as it was; get and the containment check change
\* nothing; and the containment check says yes exactly for the keys that
\* were set or there from the construction.
C14_LatestSetIsRead ==
    /\ ctx_last.op = "get" =>
         /\ ctx_last.result = IF ctx_last.key \in DOMAIN ctx_written
                              THEN ctx_written[ctx_last.key]
                              ELSE ctx_last.value
         /\ ctx_data = ctx_before
    /\ ctx_last.op = "set" =>
         /\ DOMAIN ctx_data = DOMAIN ctx_before \cup {ctx_last.key}
         /\ \A k \in DOMAIN ctx_before \ {ctx_last.key} :
              ctx_data[k] = ctx_before[k]
    /\ ctx_last.op = "contains" =>
         /\ ctx_last.found = (ctx_last.key \in DOMAIN ctx_written)
         /\ ctx_data = ctx_before

\* a key that was constructed with one value and then set to None is read
\* with a default: the get returns None, not the default, while another key
\* is there too
C14_Witness ==
    /\ ctx_last.op = "get"
    /\ ctx_last.key = "key"
    /\ ctx_last.value = "fallback"
    /\ ctx_last.result = None
    /\ "exists" \in DOMAIN ctx_data

-----------------------------------------------------------------------------
(* The registry *)

\* C15: whatever has been registered, the global registry holds one entry
\* for each name registered since it was last cleared and no other entry,
\* and the entry of a name is the one its latest registration built; a
\* registration changes the entry of no other name, and nothing but the
\* clear operation takes an entry out.
C15_OneEntryPerNameLatestWins ==
    /\ ODKeys(registered_tools) = DOMAIN reg_log
    /\ Len(registered_tools) = Cardinality(ODKeys(registered_tools))
    /\ \A name \in DOMAIN reg_log :
         ODGet(registered_tools, name) = <<reg_log[name]>>

\* ctx_tool has been registered twice, the second time with another
\* function, while greet is registered too
C15_Witness ==
    /\ reg_last.op = "register_tool"
    /\ reg_last.name = "ctx_tool"
    /\ Len(registered_tools) = 2
    /\ registered_tools[1].key = "ctx_tool"
    /\ registered_tools[1].value.function = CtxTool2
    /\ registered_tools[2].value.function = Greet

\* what a list call of the registry object returns next, given what its
\* _tools and the global registry hold
ListedNext(own, global) == get_tools(own, global)

\* C16: a caller's change of a dict that a list operation returned (an entry
\* added, removed or replaced) changes neither the global registry nor what
\* the next list and get calls of the registry object return.
C16_ListIsSnapshot ==
    [][reg_last'.op = "mutate" =>
          /\ registered_tools' = registered_tools
          /\ ListedNext(registry_tools', registered_tools')
               = ListedNext(registry_tools, registered_tools)]_vars

\* C17: get_tool returns the entry of the name when the registry object
\* lists the name and None when it does not; it does not raise; and it
\* leaves what the registry object lists, and the global registry, as they
\* were, so no entry appears for the name it was asked about.
C17_GetToolReturnsEntryOrNone ==
    [][reg_last'.op = "get_tool" =>
          LET listed == ListedNext(registry_tools, registered_tools)
              name == reg_last'.name
          IN  /\ ~reg_last'.raised
              /\ reg_last'.entry =
                   IF name \in ODKeys(listed)
                   THEN <<listed[ODIndex(listed, name)].value>>
                   ELSE <<>>
              /\ ListedNext(registry_tools', registered_tools') = listed
              /\ registered_tools' = registered_tools]_vars

\* a registry object that lists two tools was asked for a name it does not
\* list, and returned None
C17_Witness ==
    /\ reg_last.op = "get_tool"
    /\ reg_last.name = "nonexistent"
    /\ reg_last.entry = <<>>
    /\ ~reg_last.raised
    /\ Len(registry_tools) = 2
    /\ "nonexistent" \notin ODKeys(registry_tools)

-----------------------------------------------------------------------------
(* The schema formatter *)

\* the names in a list of names
Names(seq) == {seq[i] : i \in 1..Len(seq)}

\* C18: whatever tools are registered, the list format_tools returns has one
\* declaration per tool, under the tool's name; no declaration has a
\* property named action_context; every other parameter of the tool is a
\* property of its declaration, and it is in the required list exactly when
\* it has no default value.
C18_OneDeclarationPerTool ==
    fmt_last.called =>
        /\ Len(fmt_last.formatted) = Len(fmt_last.tools)
        /\ \A i \in 1..Len(fmt_last.tools) :
             LET decl == fmt_last.formatted[i]
                 params == fmt_last.tools[i].value.function.params
                 props == ODKeys(decl.parameters.properties)
                 required == Names(decl.parameters.required)
             IN  /\ decl.name = fmt_last.tools[i].key
                 /\ "action_context" \notin props
                 /\ "action_context" \notin required
                 /\ \A j \in 1..Len(params) :
                      params[j].name # "action_context" =>
                        /\ params[j].name \in props
                        /\ (params[j].name \in required) = ~params[j].has_default

\* two tools are formatted, one of them with the context parameter, a
\* parameter without a default and a parameter with one
C18_Witness ==
    /\ fmt_last.called
    /\ Len(fmt_last.formatted) = 2
    /\ \E i \in 1..2 :
         /\ fmt_last.tools[i].value.function = CtxTool2
         /\ fmt_last.formatted[i].parameters.required = <<"value">>
         /\ ODKeys(fmt_last.formatted[i].parameters.properties) = {"value", "limit"}

-----------------------------------------------------------------------------
(* Records that are not there *)

\* C20: a fetch or a delete of an identifier under which no record is
\* stored is answered with 404 and leaves the stored records as they were,
\* whatever the storage holds and also when the storage key is not yet in
\* the context.
C20_AbsentIsNotFound ==
    (/\ api_last.op \in {"get_invoice", "delete_invoice"}
     /\ api_last.key \notin DOMAIN Storage(api_before)) =>
        /\ api_last.status = 404
        /\ api_last.body = {}
        /\ Storage(api_data) = Storage(api_before)

\* a delete is answered with 404 on a context that did not have the storage
\* key yet: the route has put an empty storage there
C20_Witness ==
    /\ api_last.op = "delete_invoice"
    /\ api_last.key = "INV-9"
    /\ api_last.status = 404
    /\ ~CtxContains(api_before, "invoice_storage")
    /\ CtxContains(api_data, "invoice_storage")
    /\ Storage(api_data) = EmptyMap

-----------------------------------------------------------------------------
(* Deleting a stored record *)

\* the delete was answered with success
Deleted(o) == o.op = "delete_invoice" /\ o.status = 200

\* C21: a delete of an identifier K under which a record is stored is
\* answered with success and takes out that record and no other: what a
\* fetch of any other identifier answers is what it answered before; a fetch
\* or delete of K that comes next is answered 404 and a list that comes next
\* has no record of K; and K comes back into the storage only by a store of K.
C21_DeleteRemovesExactlyThat ==
    /\ (api_last.op = "delete_invoice"
          /\ api_last.key \in DOMAIN Storage(api_before)) =>
         /\ api_last.status = 200
         /\ Storage(api_data) = DictDel(Storage(api_before), api_last.key)
         /\ \A k \in Identifiers \ {api_last.key} :
              get_invoice(api_data, k).resp = get_invoice(api_before, k).resp
    /\ (Deleted(api_prev) /\ api_last.op \in {"get_invoice", "delete_invoice"}
          /\ api_last.key = api_prev.key) =>
         api_last.status = 404
    /\ (Deleted(api_prev) /\ api_last.op = "list_invoices") =>
         \A r \in api_last.body : r.invoice_number # api_prev.key
    /\ \A k \in DOMAIN Storage(api_data) \ DOMAIN Storage(api_before) :
         Stores(api_last) /\ api_last.key = k

\* INV-1 was deleted while INV-2 stayed stored, and the fetch of INV-1 that
\* came next was answered 404
C21_Witness ==
    /\ Deleted(api_prev)
    /\ api_prev.key = "INV-1"
    /\ api_last.op = "get_invoice"
    /\ api_last.key = "INV-1"
    /\ api_last.status = 404
    /\ DOMAIN Storage(api_data) = {"INV-2"}

-----------------------------------------------------------------------------
(* POST /invoices/process *)

\* the extraction of the request raised: the route has no extracted record
ExtractionFailed(o) == o.op = "process_invoice" /\ o.rec = EmptyMap

\* C22: when the extraction of POST /invoices/process fails, the response
\* is of the 5xx class and its detail carries the message of the failure;
\* when the extracted record has no invoice number, an empty or a null one,
\* the response is 422; either way the shared context is as it was before
\* the request, so no record is stored or replaced.
C22_ProcessFailuresStoreNothing ==
    /\ ExtractionFailed(api_last) =>
         /\ api_last.status \in 500..599
         /\ \E i \in 1..Len(ApiLlmOutcomes) :
              /\ ApiLlmOutcomes[i].raised
              /\ api_last.detail = "Extraction failed: " \o ApiLlmOutcomes[i].error
         /\ api_data = api_before
    /\ (api_last.op = "process_invoice" /\ ~ExtractionFailed(api_last)
          /\ NoIdentifier(api_last.rec)) =>
         /\ api_last.status = 422
         /\ api_data = api_before

\* with two records stored, one request's extraction failed and the next
\* request's extraction gave a record with an empty invoice number
C22_Witness ==
    /\ ExtractionFailed(api_prev) /\ api_prev.status = 500
    /\ api_last.op = "process_invoice"
    /\ api_last.rec = RecEmptyId
    /\ api_last.status = 422
    /\ DOMAIN Storage(api_data) = {"INV-1", "INV-2"}

\* C27: whenever POST /invoices/process answers with a status that is not
\* success, the shared store holds the records it held before the request.
C27_NonSuccessStoresNothing ==
    (api_last.op = "process_invoice" /\ api_last.status # 200) =>
        Storage(api_data) = Storage(api_before)

\* a is an initial part of b
IsPrefix(a, b) ==
    /\ Len(a) <= Len(b)
    /\ SubSeq(b, 1, Len(a)) = a

\* the turn with which an invocation enters the history
IsUserTurn(t) ==
    /\ t.role = "user"
    /\ Len(t.parts) = 1
    /\ "text" \in DOMAIN t.parts[1]

\* C23: on one Agent every step of process keeps the turns the history has,
\* in place and unchanged, and adds at most one turn at its end, also in the
\* step that ends the invocation by a failing model call or at the cap; a
\* further invocation on the same Agent keeps the earlier turns in front of
\* its user turn; a new Agent has an empty history.
C23_HistoryGrowsOnly ==
    [][ /\ agents' = agents =>
             /\ IsPrefix(messages, messages')
             /\ Len(messages') <= Len(messages) + 1
             /\ IsPrefix(history0', messages')
        /\ invocations' = invocations + 1 =>
             /\ history0' = messages
             /\ Len(messages') = Len(messages) + 1
             /\ IsUserTurn(messages'[Len(messages')])
        /\ (pc = "awaiting" /\ pc' \in {"dispatching", "done"}) =>
             messages' = Append(messages, messages'[Len(messages')])
                 /\ messages'[Len(messages')].role = "model"
        /\ (pc = "dispatching" /\ pc' \in {"awaiting", "done"}) =>
             messages' = Append(messages, messages'[Len(messages')])
                 /\ messages'[Len(messages')].role = "user"
        /\ pc' = "raised" => messages' = messages
        /\ agents' # agents => messages' = <<>> ]_vars

\* a second invocation on an Agent whose first one left turns behind has ended
\* at the cap, and a second Agent has been constructed after a used one
C23_Witness ==
    /\ invocations = 2
    /\ Len(history0) > 1
    /\ result = [kind |-> "return", value |-> Sentinel]
    /\ IsPrefix(history0, messages)
    /\ Len(messages) > Len(history0)
    /\ IsUserTurn(messages[Len(history0) + 1])
    /\ "function_response" \in DOMAIN messages[Len(messages)].parts[1]

\* a new Agent, constructed after one that had a history, has none
C23_WitnessNewAgent ==
    /\ agents = 2
    /\ invocations = 0
    /\ messages = <<>>
\* the six declared types the formatter knows, with their schema types
SchemaTypes ==
    { <<"str", "string">>, <<"int", "integer">>, <<"float", "number">>,
      <<"bool", "boolean">>, <<"dict", "object">>, <<"list", "array">> }

\* the schema type the claim gives to a parameter of the declared type a
SchemaTypeOf(a) ==
    IF \E st \in SchemaTypes : st[1] = a
    THEN (CHOOSE st \in SchemaTypes : st[1] = a)[2]
    ELSE "string"

\* the names the latest call of format_tools made declarations for
Declarations == {fmt_last.formatted[j].name : j \in 1..Len(fmt_last.formatted)}

\* the declaration the latest call of format_tools made for the tool name
DeclarationOf(name) ==
    LET i == CHOOSE j \in 1..Len(fmt_last.formatted) :
                 fmt_last.formatted[j].name = name
    IN  fmt_last.formatted[i]

\* C24: in every declaration the formatter makes, a property has the schema
\* type of its parameter's declared type, "string" when the type is not
\* declared or is none of the six; the declaration of add(a: int, b: int)
\* has the properties a and b of type integer and requires [a, b].
C24_TypesAreMapped ==
    fmt_last.called =>
        /\ \A i \in 1..Len(fmt_last.tools) :
             LET info == fmt_last.tools[i].value
                 decl == fmt_last.formatted[i]
             IN  \A p \in {info.function.params[j] :
                              j \in 1..Len(info.function.params)} :
                     p.name # "action_context" =>
                         \E q \in 1..Len(decl.parameters.properties) :
                             /\ decl.parameters.properties[q].key = p.name
                             /\ decl.parameters.properties[q].value
                                    = [type |-> SchemaTypeOf(p.annotation)]
        /\ "add" \in Declarations =>
             /\ DeclarationOf("add").parameters.properties
                    = << [key |-> "a", value |-> [type |-> "integer"]],
                         [key |-> "b", value |-> [type |-> "integer"]] >>
             /\ DeclarationOf("add").parameters.required = <<"a", "b">>

\* one call formatted add, typed_tool and loose_tool together
C24_Witness ==
    /\ fmt_last.called
    /\ Declarations = {"add", "typed_tool", "loose_tool"}
    /\ DeclarationOf("typed_tool").parameters.properties[3]
           = [key |-> "f", value |-> [type |-> "number"]]
    /\ DeclarationOf("loose_tool").parameters.properties[1]
           = [key |-> "x", value |-> [type |-> "string"]]
\* the tags of an entry, as a set
TagSet(info) == {info.tags[i] : i \in 1..Len(info.tags)}

\* C25: get_tools_by_tag returns exactly the entries the registry object
\* lists whose tags contain the tag asked for, each as the registry has it;
\* an entry registered without tags is never among them; and the call leaves
\* what the registry object lists, and the global registry, as they were.
C25_ByTagIsExact ==
    [][reg_last'.op = "get_tools_by_tag" =>
          LET listed == ListedNext(registry_tools, registered_tools)
              tag == reg_last'.name
              got == held'.tools
          IN  /\ \A k \in ODKeys(listed) \cup ODKeys(got) :
                   k \in ODKeys(got) <=>
                       /\ k \in ODKeys(listed)
                       /\ tag \in TagSet(ODGet(listed, k)[1])
              /\ \A k \in ODKeys(got) : ODGet(got, k) = ODGet(listed, k)
              /\ \A i \in 1..Len(got) : got[i].value.tags # <<>>
              /\ Len(got) = Cardinality(ODKeys(got))
              /\ ListedNext(registry_tools', registered_tools') = listed
              /\ registered_tools' = registered_tools]_vars

\* a registry object that lists all four tools was asked for "beta" and
\* returned tagged_a and tagged_b, not tagged_c and not the untagged greet
C25_Witness ==
    /\ reg_last.op = "get_tools_by_tag"
    /\ reg_last.name = "beta"
    /\ ODKeys(registry_tools) = {"tagged_a", "tagged_b", "tagged_c", "greet"}
    /\ held.source = "get_tools_by_tag"
    /\ ODKeys(held.tools) = {"tagged_a", "tagged_b"}
-----------------------------------------------------------------------------
(* C26 *)

\* the invocation ended at the cap
CapExhausted == pc = "done" /\ result = [kind |-> "return", value |-> Sentinel]

RECURSIVE CallsRequested(_)
\* how many function calls the given replies hold
CallsRequested(turns) ==
    IF turns = <<>> THEN 0
    ELSE Len(FunctionCalls(Head(turns).parts)) + CallsRequested(Tail(turns))

\* in the tenth round
InTenthRound == pc = "dispatching" /\ nModelCalls = max_iterations

\* C26: the function calls of the tenth reply are dispatched like those of
\* any round, each changing the Context as its tool does, and their result
\* turn is appended before the sentinel is returned; an invocation that ended
\* at the cap made 10 model calls and 10 dispatch rounds, dispatched every
\* function call requested, and its history ends with the result turn of the
\* tenth reply, one entry per function call of that reply.
C26_TenthRoundIsDispatched ==
    /\ [](CapExhausted =>
            /\ nModelCalls = 10
            /\ Len(ResultTurns) = 10
            /\ Len(dispatched) = CallsRequested(ReplyTurns)
            /\ IsResultTurn(messages[Len(messages)])
            /\ IsModelTurn(messages[Len(messages) - 1])
            /\ Len(messages[Len(messages)].parts)
                 = Len(FunctionCalls(messages[Len(messages) - 1].parts)))
    /\ [][InTenthRound =>
             IF function_calls # <<>>
             THEN /\ \E i \in 1..Len(LlmOutcomes) :
                       context' = DispatchCall(Head(function_calls).function_call,
                                               context, LlmOutcomes[i]).data
                  /\ Len(dispatched') = Len(dispatched) + 1
                  /\ function_calls' = Tail(function_calls)
                  /\ messages' = messages
                  /\ pc' = "dispatching"
             ELSE /\ messages' = Append(messages, Content("user", function_responses))
                  /\ CapExhausted'
                  /\ context' = context]_vars

\* the tenth reply asked to store INV-2: the invocation ended at the cap with
\* the record in the Context, stored by that round, and with the history
\* ending in that round's result turn
C26_Witness ==
    /\ CapExhausted
    /\ Len(ReplyTurns) = 10
    /\ \E k \in 1..Len(ReplyTurns[10].parts) :
         /\ "function_call" \in DOMAIN ReplyTurns[10].parts[k]
         /\ ReplyTurns[10].parts[k].function_call.name = "store_invoice"
    /\ CtxContains(context, "invoice_storage")
    /\ "INV-2" \in DOMAIN CtxGet(context, "invoice_storage", EmptyMap)
    /\ IsResultTurn(messages[Len(messages)])
-----------------------------------------------------------------------------
(* C28 *)

\* a fetch of the identifier, run now on its own, would find the record
Fetchable(key) == c_ref # 0 /\ key \in DOMAIN c_heap[c_ref]

\* a delete of the identifier is being processed
DeleteInFlight(key) ==
    \E t \in Threads : /\ c_thread[t].pc # "idle"
                        /\ c_thread[t].op = "delete_invoice"
                        /\ c_thread[t].key = key

\* C28: with the handlers running at the same time, a record whose store was
\* answered 200 stays fetchable as long as no delete of its identifier has
\* been processed or is being processed.
C28_AckedStaysFetchable ==
    \A key \in c_acked : ~DeleteInFlight(key) => Fetchable(key)
-----------------------------------------------------------------------------
(* C29 *)

\* the records the tool calls of the latest /agent/process request stored
StoredByTools ==
    {api_agent.log[i].kwargs.invoice_data :
        i \in {j \in 1..Len(api_agent.log) :
                  /\ api_agent.log[j].name = "store_invoice"
                  /\ api_agent.log[j].called
                  /\ ~api_agent.log[j].raised}}

\* C29: a /agent/process request runs on an Agent whose history and whose
\* context are empty when process is entered; it leaves the shared context
\* of the REST layer as it was, so list, fetch and delete answer afterwards
\* what they would have answered before; and the stored_invoices of its
\* response holds only records that tool calls of this request stored,
\* whatever earlier /agent/process requests stored.
C29_AgentRequestIsIsolated ==
    api_last.op = "agent_process" =>
        /\ api_agent.ran
        /\ api_agent.created = AgentOf(<<>>, EmptyMap)
        /\ api_data = api_before
        /\ list_invoices(api_data).resp = list_invoices(api_before).resp
        /\ \A k \in Identifiers :
             /\ get_invoice(api_data, k).resp = get_invoice(api_before, k).resp
             /\ delete_invoice(api_data, k).resp = delete_invoice(api_before, k).resp
        /\ api_last.status \in {200, 500}
        /\ api_last.body \subseteq StoredByTools
        /\ api_last.status = 200 =>
             api_last.body =
                {CtxGet(api_agent.agent.context, "invoice_storage", EmptyMap)[k] :
                    k \in DOMAIN CtxGet(api_agent.agent.context, "invoice_storage",
                                        EmptyMap)}

\* after a /agent/process request whose tools stored INV-1 and INV-2, a
\* second one whose model answered with a text at once returned no stored
\* invoices, and the shared store, which holds INV-1 from a POST
\* /invoices/process, is as it was
C29_Witness ==
    /\ api_prev.op = "agent_process"
    /\ api_prev.status = 200
    /\ Rec2 \in api_prev.body
    /\ api_last.op = "agent_process"
    /\ api_last.status = 200
    /\ api_last.body = {}
    /\ api_agent.log = <<>>
    /\ Storage(api_data) = [x \in {"INV-1"} |-> Sample1]
-----------------------------------------------------------------------------
(* C30 *)

\* the step binds _tools anew: load_tools is called, or the registry object
\* is a new one
Reloads == reg_last'.op \in {"load_tools", "PythonActionRegistry"}

\* C30: a registry object whose _tools is not empty serves the same set
\* after every step in which load_tools is not called, so no later
\* registration, re-registration or clearing of the global registry shows
\* through it; and a get_tools call on a registry object whose _tools is
\* empty loads the global registry and returns it.
C30_ServesTheLoadedSet ==
    /\ [][(registry_tools # <<>> /\ ~Reloads) => registry_tools' = registry_tools]_vars
    /\ [][(registry_tools = <<>> /\ reg_last'.op = "get_tools") =>
             /\ registry_tools' = registered_tools
             /\ held'.tools = registered_tools]_vars

\* what holds of the global registry alone: a registration, a
\* re-registration or a clearing leaves what the registry object holds as
\* it is
GlobalChangesStayOutside ==
    [][reg_last'.op \in {"register_tool", "clear_registered_tools"} =>
           registry_tools' = registry_tools]_vars
-----------------------------------------------------------------------------
(* C31 *)

\* the reply holds text and at least one tool-invocation request
TextAndRequest(parts) ==
    /\ RequestsTool(parts)
    /\ \E k \in 1..Len(parts) : HasText(parts[k])

\* a step in which the model gives a reply with text and requests
MixedReplyStep ==
    /\ Len(messages') = Len(messages) + 1
    /\ IsModelTurn(messages'[Len(messages')])
    /\ TextAndRequest(messages'[Len(messages')].parts)

\* C31: a reply with text and at least one request does not end process: the
\* loop goes on to dispatch its requests, its result turn follows it in the
\* history, and after that the model is called again, unless the reply was
\* the tenth, and then process returns the sentinel; the text of such a
\* reply is never what process returns.
C31_TextWithRequestIsDispatched ==
    /\ [][MixedReplyStep =>
            /\ pc' = "dispatching"
            /\ result' = result
            /\ function_calls' = FunctionCalls(messages'[Len(messages')].parts)
            /\ function_calls' # <<>>]_vars
    /\ [](\A j \in 1..Len(messages) :
            (IsModelTurn(messages[j]) /\ TextAndRequest(messages[j].parts)) =>
                /\ j = Len(messages) => pc = "dispatching"
                /\ j < Len(messages) => IsResultTurn(messages[j + 1])
                /\ j + 1 = Len(messages) =>
                     \/ pc = "awaiting"
                     \/ pc = "raised"
                     \/ /\ pc = "done"
                        /\ nModelCalls = max_iterations
                        /\ result = [kind |-> "return", value |-> Sentinel]
                /\ j + 1 < Len(messages) => IsModelTurn(messages[j + 2])
                /\ result.kind = "return" =>
                     \/ result.value = Sentinel
                     \/ /\ j + 1 < Len(messages)
                        /\ result.value = JoinText(messages[Len(messages)].parts)
                        /\ ~RequestsTool(messages[Len(messages)].parts))

\* the first reply was the text "t" with a request for add; add was
\* dispatched, the model was called again and process returned the text of
\* the second reply
C31_Witness ==
    /\ pc = "done"
    /\ Len(messages) = 4
    /\ messages[2].parts = << TextPart("t"), CallPart("add", AddArgs) >>
    /\ messages[3] = Content("user", << ResponsePart("add", [result |-> "5"]) >>)
    /\ nModelCalls = 2
    /\ result = [kind |-> "return", value |-> "5"]
-----------------------------------------------------------------------------
(* C32 *)

\* C32: every tool that is called and declares action_context is called
\* with the Agent's own context under that name, whatever the model gave
\* under it, and with the model's other arguments as they are; every tool
\* that is called and does not declare it is called with the model's
\* arguments and nothing else, so not with the context.
C32_ContextIsInjected ==
    /\ Len(dispatched) <= Len(AllRequests)
    /\ \A i \in 1..Len(dispatched) :
         dispatched[i].called =>
            LET args == AllRequests[i].function_call.args
                kwargs == dispatched[i].kwargs
            IN  IF "action_context" \in Parameters(dispatched[i].name)
                THEN /\ DOMAIN kwargs = DOMAIN args \cup {"action_context"}
                     /\ kwargs.action_context = CtxRef
                     /\ \A k \in DOMAIN args \ {"action_context"} : kwargs[k] = args[k]
                ELSE /\ kwargs = args
                     /\ "action_context" \in DOMAIN kwargs =>
                            kwargs.action_context # CtxRef

\* the model asked for store_invoice with its own value under
\* action_context: the tool was called with the Agent's context instead and
\* stored the record in it
C32_Witness ==
    /\ \E i \in 1..Len(dispatched) :
         /\ dispatched[i].name = "store_invoice"
         /\ "action_context" \in DOMAIN AllRequests[i].function_call.args
         /\ AllRequests[i].function_call.args.action_context = "bogus"
         /\ dispatched[i].kwargs.action_context = CtxRef
         /\ ~dispatched[i].raised
    /\ "INV-1" \in DOMAIN CtxGet(context, "invoice_storage", EmptyMap)

\* the model asked for add with a value under action_context, which add
\* does not declare: add was called with that value, not with the context
C32_WitnessUndeclared ==
    \E i \in 1..Len(dispatched) :
        /\ dispatched[i].name = "add"
        /\ dispatched[i].called
        /\ dispatched[i].kwargs = [action_context |-> "bogus", a |-> 2, b |-> 3]
        /\ dispatched[i].raised
-----------------------------------------------------------------------------
(* C33 *)

\* the latest request of thread t was a delete, and it has been answered
DeleteAnswered(t) ==
    /\ c_thread[t].pc = "idle"
    /\ c_thread[t].op = "delete_invoice"

\* C33: with the handlers running at the same time, every delete request is
\* answered 200 or 404, never by an unhandled failure; so of two deletes of
\* one stored identifier that run at the same time one answers 200 and the
\* other 404.
C33_DeletesAnswerOnceEach ==
    \A t \in Threads : DeleteAnswered(t) => c_thread[t].status \in {200, 404}
====
